---- MODULE Spec2Model ----
(***************************************************************************)
(* A state-machine model of crawler.py (spraakbanken/svt-crawler): the     *)
(* SvtParser crawl loop (crawl / get_urls / get_article / save_results),   *)
(* the failed-URL bookkeeping and the retry pass.                          *)
(*                                                                         *)
(* Modelling conventions                                                   *)
(*  - A URL is a record [host, path, page]: host is the literal prefix the *)
(*    code tests with startswith (none, the site host, the API prefix),    *)
(*    path the "/"-separated segments and page the page number of a        *)
(*    listing query (0: no listing query).                                 *)
(*  - An optional value (None / missing key) is a sequence of length 0,    *)
(*    a present value v is <<v>>.                                          *)
(*  - A listing date is the integer YYYYMMDD of its first ten characters.  *)
(*  - write_json is one step: a file is either written or not.             *)
(*  - Every reachable state is a point where the process can be killed:    *)
(*    the variables disk* and files are what the next process would find.  *)
(***************************************************************************)
EXTENDS Integers, Sequences, FiniteSets, TLC

\* ---------------------------------------------------------------- constants

MAX_SEEN_ARTICLES == 50
LIMIT == 50
ThisYear == 2026

WWW == "https://www.svt.se"
API == "https://api.svt.se/nss-api/page"

\* SvtParser.TOPICS, cut to two topics (one under nyheter/, one top-level).
TOPICS == << <<"nyheter", "ekonomi">>, <<"sport">> >>

\* ------------------------------------------------------------------- bounds

\* Largest number of listing pages of a topic whose listing is not recorded.
MaxPages == 1
\* Largest number of items of a listing page that is not recorded.
MaxItems == 1
\* Number of crawl invocations followed against a recorded upstream.
MaxRuns == 2
\* Number of direct calls of add_to_failed / remove_from_failed followed.
MaxApiCalls == 2

\* ------------------------------------------------------------------ helpers

Range(s) == {s[n] : n \in DOMAIN s}

NoDup(s) == \A m, n \in DOMAIN s : m # n => s[m] # s[n]

EmptyMap == [u \in {} |-> <<>>]

Put(m, k, v) == [x \in (DOMAIN m) \cup {k} |-> IF x = k THEN v ELSE m[x]]

None == <<>>

Some(v) == <<v>>

\* --------------------------------------------------------------------- URLs

NoURL == [host |-> "", path |-> <<>>, page |-> 0]

UA == [host |-> "", path |-> <<"nyheter", "ekonomi", "a">>, page |-> 0]

UB == [host |-> "", path |-> <<"sport", "b">>, page |-> 0]

UAabs == [host |-> WWW, path |-> <<"nyheter", "ekonomi", "a">>, page |-> 0]

ShortURLs == {UA, UB}

\* A short URL of one segment, which starts with "nyheter".
UShort == [host |-> "", path |-> <<"nyheterx">>, page |-> 0]

\* request.url of the listing request for `topic`, page `i`.
ListingURL(topic, i) == [host |-> API, path |-> topic, page |-> i]

ListingURLs == {ListingURL(TOPICS[n], i) : n \in DOMAIN TOPICS, i \in 1..MaxPages}

\* short_url[18:] when it starts with the site host.
StripHost(u) == IF u.host = WWW THEN [u EXCEPT !.host = ""] ELSE u

\* topic.split("/")[-1]
TopicName(topic) == topic[Len(topic)]

\* ------------------------------------------------------- upstream responses

Dates == {20191231, 20200101, 20200201}

StopDates == {None, Some(20200101)}

ItemURLs == {NoURL, UA, UB, UAabs}

Items == [url : ItemURLs, published : {None} \cup {Some(d) : d \in Dates}]

\* The first content entry the article API holds for a short URL.
ArticleRecord(u) ==
    IF u = UA THEN [id |-> 1, published |-> Some(2020), modified |-> None]
              ELSE [id |-> 2, published |-> None, modified |-> None]

\* An article request raises, answers zero content entries, or answers the
\* record.
ArticleResponses(u) ==
    { [status |-> "raise", content |-> <<>>],
      [status |-> "ok", content |-> <<>>],
      [status |-> "ok", content |-> <<ArticleRecord(u)>>] }

\* totalAvailableItems of a first listing response.
Totals == {n * LIMIT : n \in 0..(MaxPages - 1)} \cup {(MaxPages - 1) * LIMIT + 1}

\* --------------------------------------------------- pure parts of the code

\* int(math.ceil(int(items) / self.LIMIT))
PageCount(items) == (items + LIMIT - 1) \div LIMIT

\* get_article: the year of the first content entry.
ArticleYear(rec) ==
    IF rec.published # None THEN rec.published[1]
    ELSE IF rec.modified # None THEN rec.modified[1]
    ELSE 0

\* A range test that leaves the year 2004 out.
YearBucket_exclusive(year) ==
    IF (year <= 2004) \/ (year > ThisYear) THEN "nodate" ELSE ToString(year)

\* get_article: the bucket, str(year) or "nodate".
YearBucket(year) ==
    IF (year < 2004) \/ (year > ThisYear) THEN "nodate" ELSE ToString(year)

\* The index value [article_id, str(year), topic_name].
IndexEntry(rec, topic_name) ==
    <<ToString(rec.id), YearBucket(ArticleYear(rec)), topic_name>>

\* DATADIR / ("svt-" + year) / topic_name / (article_id + ".json"), as
\* <<year, topic_name, article_id>>.
ArticlePath(entry) == <<entry[2], entry[3], entry[1]>>

\* A get_article whose write_json call leaves no file behind.
WriteArticleFile_lost(fs, path) == fs

\* write_json(article_json, filepath) on the set of article files.
WriteArticleFile(fs, path) == fs \cup {path}

\* write_json, lines 615-618, raising OSError: mkdir or open has raised and
\* the files are as they were, or open has created the file, or emptied
\* the one that was there, and the write has raised: the file exists and is
\* not a whole article file. part is the set of such files.
FailedWrite(fs, part, path) ==
    { [files |-> fs, incomplete |-> part],
      [files |-> fs \cup {path}, incomplete |-> part \cup {path}] }

\* An add_to_failed without the membership test of line 294.
add_to_failed_unchecked(l, url) == Append(l, url)

add_to_failed(l, url) == IF url \in Range(l) THEN l ELSE Append(l, url)

\* A remove_from_failed that leaves the list as it is.
remove_from_failed_kept(l, url) == l

remove_from_failed(l, url) ==
    IF url \notin Range(l) THEN l
    ELSE LET k == CHOOSE n \in DOMAIN l :
                      l[n] = url /\ \A m \in 1..(n - 1) : l[m] # url
         IN  SubSeq(l, 1, k - 1) \o SubSeq(l, k + 1, Len(l))

\* save_results: the content of failed_urls.json afterwards.
SavedFailed(failed, onDisk) == IF failed # <<>> THEN failed ELSE onDisk

\* A save_results whose test of line 306 is turned round.
IndexGrew_reversed(saved, prev) == Cardinality(saved) < prev

\* save_results: whether crawled_pages.json is rewritten.
IndexGrew(saved, prev) == Cardinality(saved) > prev

\* save_results: the content of crawled_pages.json afterwards.
SavedCrawled(data, saved, prev, onDisk) ==
    IF IndexGrew(saved, prev) THEN data ELSE onDisk

\* ---------------------------------------------------------------- the state

VARIABLES
    \* SvtParser fields
    crawled_data, saved_urls, failed_urls, prev_crawled,
    seen_articles_counter, new_articles, stopdate, page_param,
    \* arguments and locals of crawl / get_urls / get_article
    force, t, pages, i, request, pagecontent_ok, call,
    \* locals of retry_failed, and the field debug it reads
    j, success, new_failed, retry_request, debug,
    \* control: the statement the process is at, and the uncaught exception
    pc, exc,
    \* the file system: crawled_pages.json, failed_urls.json, article files
    diskCrawled, diskFailed, files,
    \* upstream: recorded listings/articles (fixed) or any response (not fixed)
    fixed, upstream, pos, run,
    \* history: what happened, in the words of the specification
    streak, streakAny, oldUsable, oldAny, lastStop, failedWrites,
    crawledWrites, downloads, firstRun, retryOk, api,
    \* one call of get_article: its arguments, what the article API and the
    \* file system answer, the requests made and the value returned
    arg, answer, writeOk, incomplete, nrequests, ret,
    \* process_articles: the article files under data/, the XML files, the
    \* processed index in memory and in processed_json.json, the arguments
    \* and locals of the function
    tree, xml, processed_json, diskProcessed, override, dirs, dno, fno,
    contents, filecounter, xrun,
    \* history of one run of process_articles
    xmlAtStart, processedAtStart, xmlWrites, transformed, topicBytes,
    lastBytes, topicWrites,
    \* crawled_data_from_files: the article files under data/, the files not
    \* yet read, the index in memory and the index file written
    jsonTree, unread, index, indexOut,
    \* process_article: the article record, the XML tree under construction,
    \* the position in the lead or body list, and the tree returned
    article_json, article, nodeNo, output

progVars == <<crawled_data, saved_urls, failed_urls, prev_crawled,
              seen_articles_counter, new_articles, stopdate, page_param>>

localVars == <<force, t, pages, i, request, pagecontent_ok, call>>

retryVars == <<j, success, new_failed, retry_request, debug>>

diskVars == <<diskCrawled, diskFailed, files>>

upVars == <<fixed, upstream, run>>

histVars == <<streak, streakAny, oldUsable, oldAny, lastStop, failedWrites, crawledWrites,
              downloads, firstRun, retryOk, api>>

crawlVars == <<progVars, localVars, retryVars, pc, exc, diskVars, upVars, pos, histVars>>

artVars == <<arg, answer, writeOk, incomplete, nrequests, ret>>

xmlVars == <<tree, xml, processed_json, diskProcessed, override, dirs, dno,
             fno, contents, filecounter, xrun, xmlAtStart, processedAtStart,
             xmlWrites, transformed, topicBytes, lastBytes, topicWrites>>

idxVars == <<jsonTree, unread, index, indexOut>>

\* The variables the crawl and the retry pass leave alone.
docVars == <<article_json, article, nodeNo, output>>

convVars == <<artVars, xmlVars, idxVars, docVars>>

vars == <<crawlVars, convVars>>

\* ------------------------------------------------------------ the upstream

\* A recorded listing page: how the request for it ends and, run-length
\* encoded, the items of auto.content.
NoPage == [status |-> "ok", blocks |-> <<>>]

FreeUpstream ==
    [listing |-> [n \in DOMAIN TOPICS |-> <<>>],
     article |-> [u \in ShortURLs |-> [status |-> "raise", content |-> <<>>]]]

RecordedPage == IF fixed /\ i \in DOMAIN upstream.listing[t]
                THEN upstream.listing[t][i] ELSE NoPage

\* The answers the first listing request of topic t can get: "raise", or the
\* totalAvailableItems of a response that parses.
FirstResponses ==
    IF fixed
    THEN LET pgs == upstream.listing[t]
         IN  IF pgs # <<>> /\ pgs[1].status # "ok" THEN {<<"raise", 0>>}
             ELSE {<<"ok", IF pgs = <<>> THEN 0 ELSE (Len(pgs) - 1) * LIMIT + 1>>}
    ELSE {<<"raise", 0>>} \cup {<<"ok", n>> : n \in Totals}

\* How the request for page i (i >= 2) can end.
PageOutcomes ==
    IF fixed THEN {RecordedPage.status} ELSE {"ok", "neterr", "parseerr"}

\* The items the iteration over pagecontent can yield next.
NextItems ==
    IF ~pagecontent_ok THEN {}
    ELSE IF fixed
    THEN IF pos[1] \in DOMAIN RecordedPage.blocks
         THEN {RecordedPage.blocks[pos[1]].item} ELSE {}
    ELSE IF pos[2] < MaxItems THEN Items ELSE {}

\* Whether the iteration over pagecontent can be over.
AtPageEnd ==
    IF fixed /\ pagecontent_ok THEN pos[1] \notin DOMAIN RecordedPage.blocks
    ELSE TRUE

\* The position after the current item.
NextPos ==
    IF fixed
    THEN IF pos[2] + 1 >= RecordedPage.blocks[pos[1]].n
         THEN <<pos[1] + 1, 0>> ELSE <<pos[1], pos[2] + 1>>
    ELSE <<pos[1], pos[2] + 1>>

\* The answers the article request for short_url can get.
ArticleOutcomes(short_url) ==
    IF fixed THEN {upstream.article[short_url]} ELSE ArticleResponses(short_url)

\* ------------------------------------------------------- construction (Init)

E1 == <<"1", "2020", "ekonomi">>

E2 == <<"2", "nodate", "sport">>

\* crawled_pages.json as an earlier run can have left it.
InitIndexes ==
    { EmptyMap, [u \in {UA} |-> E1], [u \in {UA, UB} |-> IF u = UA THEN E1 ELSE E2] }

\* failed_urls.json as an earlier run can have left it.
InitFailed ==
    { <<>>, <<UA>>, <<UB>>, <<ListingURL(TOPICS[1], 2)>>,
      <<UB, ListingURL(TOPICS[2], 1)>>, <<UShort>>,
      <<ListingURL(TOPICS[2], 1), ListingURL(TOPICS[1], 2)>> }

\* SvtParser.__init__ / get_crawled_data: the fields loaded from the files.
Loaded ==
    /\ crawled_data = diskCrawled
    /\ saved_urls = DOMAIN diskCrawled
    /\ failed_urls = diskFailed

InitCommon ==
    /\ Loaded
    /\ files = {ArticlePath(diskCrawled[u]) : u \in DOMAIN diskCrawled}
    /\ prev_crawled = 0 /\ seen_articles_counter = 0 /\ new_articles = 0
    /\ stopdate = None /\ page_param = 1 /\ force = FALSE
    /\ t = 1 /\ pages = 0 /\ i = 1 /\ request = NoURL
    /\ pagecontent_ok = FALSE
    /\ call = [short_url |-> NoURL, entry |-> E1]
    /\ j = 1 /\ success = {} /\ new_failed = {} /\ retry_request = None
    /\ pc = "idle" /\ exc = ""
    /\ pos = <<1, 0>> /\ run = 1
    /\ streak = 0 /\ streakAny = 0 /\ oldUsable = FALSE /\ oldAny = FALSE /\ lastStop = ""
    /\ failedWrites = 0 /\ crawledWrites = 0 /\ downloads = FALSE
    /\ retryOk = {}
    /\ api = [calls |-> 0, op |-> "", url |-> NoURL, before |-> <<>>]
    /\ firstRun = [force |-> FALSE, stopdate |-> None, ended |-> FALSE,
                   crawled_data |-> EmptyMap, diskCrawled |-> EmptyMap]

InitFree ==
    /\ fixed = FALSE
    /\ debug \in BOOLEAN
    /\ upstream = FreeUpstream
    /\ diskCrawled \in InitIndexes
    /\ diskFailed \in InitFailed
    /\ InitCommon

\* Recorded listings: topic 1 lists UA `lead` times, then at most one other
\* item, then UA `tail` times, the tail on page 1 or on a page 2 of its own
\* whose request ends as `second` says; topic 2 lists UA once.
Block(u, d, n) == [item |-> [url |-> u, published |-> Some(d)], n |-> n]

MiddleBlocks ==
    { <<>>, <<Block(UB, 20200201, 1)>>, <<Block(UB, 20191231, 1)>>,
      <<Block(NoURL, 20191231, 1)>> }

RecordedListing(lead, middle, tail, second) ==
    LET head == <<Block(UAabs, 20200201, lead)>> \o middle
        rest == IF tail > 0 THEN <<Block(UA, 20200101, tail)>> ELSE <<>>
    IN  IF second = "none"
        THEN << [status |-> "ok", blocks |-> head \o rest] >>
        ELSE << [status |-> "ok", blocks |-> head],
                [status |-> second, blocks |-> rest] >>

RecordedListings ==
    { RecordedListing(lead, middle, tail, second) :
        lead \in {1, MAX_SEEN_ARTICLES - 1, MAX_SEEN_ARTICLES},
        middle \in MiddleBlocks,
        tail \in {0, MAX_SEEN_ARTICLES},
        second \in {"none", "ok", "neterr", "parseerr"} }

RecordedUpstreams ==
    { [listing |-> [n \in DOMAIN TOPICS |->
                       IF n = 1 THEN l
                       ELSE << [status |-> "ok", blocks |-> <<Block(UA, 20200201, 1)>>] >>],
       article |-> [u \in ShortURLs |->
                       IF u = UB /\ ~ubOk THEN [status |-> "ok", content |-> <<>>]
                       ELSE [status |-> "ok", content |-> <<ArticleRecord(u)>>]]] :
        l \in RecordedListings, ubOk \in BOOLEAN }

InitFixed ==
    /\ fixed = TRUE
    /\ debug = FALSE
    /\ upstream \in RecordedUpstreams
    /\ diskCrawled \in {EmptyMap, [u \in {UA} |-> E1]}
    /\ diskFailed = <<>>
    /\ InitCommon

\* No call of get_article on its own is followed.
ArticleIdle ==
    /\ arg = [short_url |-> NoURL, topic_name |-> "", force |-> FALSE]
    /\ answer = [status |-> "raise", content |-> <<>>]
    /\ writeOk = TRUE /\ incomplete = {} /\ nrequests = 0 /\ ret = "none"

\* process_articles is not run: there are no article files to convert.
XmlIdle ==
    /\ tree = <<>> /\ xml = EmptyMap
    /\ processed_json = EmptyMap /\ diskProcessed = EmptyMap
    /\ override = FALSE /\ dirs = <<>> /\ dno = 1 /\ fno = 1
    /\ contents = [articles |-> <<>>, bytes |-> 0]
    /\ filecounter = 1 /\ xrun = 1
    /\ xmlAtStart = EmptyMap /\ processedAtStart = EmptyMap
    /\ xmlWrites = <<>> /\ transformed = <<>>
    /\ topicBytes = 0 /\ lastBytes = 0 /\ topicWrites = 0

\* crawled_data_from_files is not run: there are no article files to read.
IndexIdle ==
    /\ jsonTree = EmptyMap /\ unread = {}
    /\ index = EmptyMap /\ indexOut = None

\* etree.Element(tag): no attribute, no text, no child.
Element(tag) == [tag |-> tag, attrs |-> EmptyMap, text |-> None, children |-> <<>>]

\* process_article is not run.
DocIdle ==
    /\ article_json = [url |-> <<>>, published |-> None, modified |-> None,
                       structuredLead |-> <<>>, structuredBody |-> <<>>]
    /\ article = Element("text")
    /\ nodeNo = 1 /\ output = None

\* ------------------------------------------------------------------- crawl

\* crawl(force, stopdate), lines 158-161.
Crawl(f, sd) ==
    /\ pc = "idle"
    /\ run > 1 => (f = firstRun.force /\ sd = firstRun.stopdate)
    /\ force' = f /\ stopdate' = sd
    /\ t' = 1 /\ pc' = "topic"
    /\ downloads' = FALSE
    /\ firstRun' = IF run = 1
                   THEN [force |-> f, stopdate |-> sd, ended |-> FALSE,
                         crawled_data |-> EmptyMap, diskCrawled |-> EmptyMap]
                   ELSE firstRun
    /\ UNCHANGED <<convVars, crawled_data, saved_urls, failed_urls, prev_crawled,
                   seen_articles_counter, new_articles, page_param,
                   pages, i, request, pagecontent_ok, call, retryVars, exc,
                   diskVars, upVars, pos, streak, streakAny, oldUsable, oldAny, lastStop,
                   failedWrites, crawledWrites, retryOk, api>>

\* The end of get_urls and of the loop body of crawl: the next topic, or the
\* end of crawl.
NextTopic ==
    IF t < Len(TOPICS) THEN pc' = "topic" /\ t' = t + 1
                       ELSE pc' = "done" /\ t' = t

\* save_results, lines 302-308.
SaveResults(failed) ==
    /\ diskFailed' = SavedFailed(failed, diskFailed)
    /\ diskCrawled' = SavedCrawled(crawled_data, saved_urls, prev_crawled, diskCrawled)
    /\ prev_crawled' = IF IndexGrew(saved_urls, prev_crawled)
                       THEN Cardinality(saved_urls) ELSE prev_crawled

\* crawl, lines 171-172: the first listing request of a topic raises (the
\* request itself or request.json()); nothing catches it.
TopicRequestFails ==
    /\ pc = "topic"
    /\ <<"raise", 0>> \in FirstResponses
    /\ pc' = "crashed" /\ exc' = "first_listing_request"
    /\ page_param' = 1 /\ seen_articles_counter' = 0 /\ new_articles' = 0
    /\ UNCHANGED <<convVars, crawled_data, saved_urls, failed_urls, prev_crawled, stopdate,
                   localVars, retryVars, diskVars, upVars, pos, histVars>>

\* crawl, lines 163-178, and the head of get_urls, line 185.
TopicRequest ==
    /\ pc = "topic"
    /\ \E r \in FirstResponses :
          /\ r[1] = "ok"
          /\ pages' = PageCount(r[2])
          /\ IF PageCount(r[2]) >= 1
             THEN pc' = "page" /\ t' = t /\ lastStop' = ""
             ELSE NextTopic /\ lastStop' = "end"
    /\ page_param' = 1 /\ seen_articles_counter' = 0 /\ new_articles' = 0
    /\ request' = ListingURL(TOPICS[t], 1)
    /\ prev_crawled' = Cardinality(saved_urls)
    /\ i' = 1
    /\ streak' = 0 /\ streakAny' = 0 /\ oldUsable' = FALSE /\ oldAny' = FALSE
    /\ UNCHANGED <<convVars, crawled_data, saved_urls, failed_urls, stopdate, force,
                   pagecontent_ok, call, retryVars, exc, diskVars, upVars, pos,
                   failedWrites, crawledWrites, downloads, firstRun, retryOk, api>>

\* get_urls, lines 190-191: page i is the page of the first request.
PageFirst ==
    /\ pc = "page" /\ i = page_param
    /\ pagecontent_ok' = TRUE /\ pos' = <<1, 0>> /\ pc' = "item"
    /\ UNCHANGED <<convVars, progVars, force, t, pages, i, request, call, retryVars, exc,
                   diskVars, upVars, histVars>>

\* get_urls, lines 193-200: the request for page i is answered and parses.
PageFetched ==
    /\ pc = "page" /\ i # page_param
    /\ "ok" \in PageOutcomes
    /\ page_param' = i
    /\ request' = ListingURL(TOPICS[t], i)
    /\ failed_urls' = remove_from_failed(failed_urls, ListingURL(TOPICS[t], i))
    /\ pagecontent_ok' = TRUE /\ pos' = <<1, 0>> /\ pc' = "item"
    /\ UNCHANGED <<convVars, crawled_data, saved_urls, prev_crawled, seen_articles_counter,
                   new_articles, stopdate, force, t, pages, i, call, retryVars,
                   exc, diskVars, upVars, histVars>>

\* The URL get_urls records when requests.get itself raised at line 195:
\* `request` still is the response of the last request that was answered.
UrlOfFailedRequest(lastAnswered, attempted) == lastAnswered

\* get_urls, lines 193-195, 201-205: requests.get raises.
PageRequestError ==
    /\ pc = "page" /\ i # page_param
    /\ "neterr" \in PageOutcomes
    /\ page_param' = i
    /\ failed_urls' = add_to_failed(failed_urls,
                          UrlOfFailedRequest(request, ListingURL(TOPICS[t], i)))
    /\ pagecontent_ok' = FALSE /\ pos' = <<1, 0>> /\ pc' = "item"
    /\ UNCHANGED <<convVars, crawled_data, saved_urls, prev_crawled, seen_articles_counter,
                   new_articles, stopdate, force, t, pages, i, request, call,
                   retryVars, exc, diskVars, upVars, streak, streakAny, oldUsable, oldAny,
                   lastStop, failedWrites, crawledWrites, downloads, firstRun, retryOk, api>>

\* get_urls, lines 193-198, 201-205: the request is answered, request.json()
\* or the access to auto.content raises.
PageParseError ==
    /\ pc = "page" /\ i # page_param
    /\ "parseerr" \in PageOutcomes
    /\ page_param' = i
    /\ request' = ListingURL(TOPICS[t], i)
    /\ failed_urls' = add_to_failed(failed_urls, ListingURL(TOPICS[t], i))
    /\ pagecontent_ok' = FALSE /\ pos' = <<1, 0>> /\ pc' = "item"
    /\ UNCHANGED <<convVars, crawled_data, saved_urls, prev_crawled, seen_articles_counter,
                   new_articles, stopdate, force, t, pages, i, call,
                   retryVars, exc, diskVars, upVars, streak, streakAny, oldUsable, oldAny,
                   lastStop, failedWrites, crawledWrites, downloads, firstRun, retryOk, api>>

\* get_urls, line 241 and the next iteration of line 186.
PageEnd ==
    /\ pc = "item" /\ AtPageEnd
    /\ SaveResults(failed_urls)
    /\ i' = i + 1
    /\ IF i + 1 <= pages THEN pc' = "page" /\ t' = t /\ lastStop' = lastStop
                         ELSE NextTopic /\ lastStop' = "end"
    /\ UNCHANGED <<convVars, crawled_data, saved_urls, failed_urls, seen_articles_counter,
                   new_articles, stopdate, page_param, force, pages, request,
                   pagecontent_ok, call, retryVars, exc, files, upVars, pos,
                   streak, streakAny, oldUsable, oldAny, failedWrites,
                   crawledWrites, downloads, firstRun, retryOk, api>>

\* ------------------------------------------------- get_urls: one list item

\* Lines 208-210: the short URL of a listing item.
ShortUrl(c) == StripHost(c.url)

\* Line 211: `if short_url:`.
Usable(c) == ShortUrl(c) # NoURL

\* A stop-date test that also stops at an item dated on the stop date.
TooOld_inclusive(c) ==
    /\ stopdate # None /\ c.published # None
    /\ c.published[1] <= stopdate[1]

\* Lines 213-215: the item is older than the stop date.
TooOld(c) ==
    /\ stopdate # None /\ c.published # None
    /\ c.published[1] < stopdate[1]

\* Line 220: the item counts as seen.
Seen(c) == ~force /\ ShortUrl(c) \in saved_urls

\* Lines 221 and 232: seen_articles_counter after the item.
CounterAfter(c) == IF Seen(c) THEN seen_articles_counter + 1 ELSE 0

\* A seen-counter test that waits for one more seen item.
StreakStop_late(c) ==
    /\ ~force /\ ShortUrl(c) \in saved_urls /\ stopdate = None
    /\ (IF ~force /\ ShortUrl(c) \in saved_urls
        THEN seen_articles_counter + 1 ELSE 0) > MAX_SEEN_ARTICLES

\* Line 227: the seen counter ends the topic.
StreakStop(c) ==
    /\ Seen(c) /\ stopdate = None
    /\ CounterAfter(c) >= MAX_SEEN_ARTICLES

\* The seen-streak after item c: the number of consecutive already-indexed
\* items of the topic so far. streak follows the items that have a URL;
\* streakAny follows every item, so that one without a URL, which is not
\* indexed, resets it.
StreakAfter(c, before) ==
    IF ShortUrl(c) \in DOMAIN crawled_data THEN before + 1 ELSE 0

\* The specification's "publication date strictly earlier than stopDate".
IsOld(c) == /\ stopdate # None /\ c.published # None
            /\ c.published[1] < stopdate[1]

\* Line 211 false: the item has no URL and is passed over.
ItemSkip ==
    /\ pc = "item"
    /\ \E c \in NextItems :
          /\ ~Usable(c)
          /\ streakAny' = StreakAfter(c, streakAny)
          /\ oldAny' = (oldAny \/ IsOld(c))
    /\ pos' = NextPos
    /\ UNCHANGED <<convVars, progVars, localVars, retryVars, pc, exc, diskVars, upVars,
                   streak, oldUsable, lastStop, failedWrites,
                   crawledWrites, downloads, firstRun, retryOk, api>>

\* Lines 213-218: an item older than the stop date ends the topic.
ItemStopDate ==
    /\ pc = "item"
    /\ \E c \in NextItems :
          /\ Usable(c) /\ TooOld(c)
          /\ oldUsable' = (oldUsable \/ IsOld(c))
          /\ oldAny' = (oldAny \/ IsOld(c))
    /\ SaveResults(failed_urls)
    /\ NextTopic
    /\ lastStop' = "stopdate"
    /\ UNCHANGED <<convVars, crawled_data, saved_urls, failed_urls, seen_articles_counter,
                   new_articles, stopdate, page_param, force, pages, i, request,
                   pagecontent_ok, call, retryVars, exc, files, upVars, pos,
                   streak, streakAny, failedWrites, crawledWrites, downloads,
                   firstRun, retryOk, api>>

\* Lines 220-230: the MAX_SEEN_ARTICLES-th seen item in a row ends the topic.
ItemSeenStop ==
    /\ pc = "item"
    /\ \E c \in NextItems :
          /\ Usable(c) /\ ~TooOld(c) /\ StreakStop(c)
          /\ seen_articles_counter' = CounterAfter(c)
          /\ streak' = StreakAfter(c, streak)
          /\ streakAny' = StreakAfter(c, streakAny)
          /\ oldUsable' = (oldUsable \/ IsOld(c))
          /\ oldAny' = (oldAny \/ IsOld(c))
    /\ SaveResults(failed_urls)
    /\ NextTopic
    /\ lastStop' = "streak"
    /\ UNCHANGED <<convVars, crawled_data, saved_urls, failed_urls, new_articles, stopdate,
                   page_param, force, pages, i, request, pagecontent_ok, call,
                   retryVars, exc, files, upVars, pos, failedWrites,
                   crawledWrites, downloads, firstRun, retryOk, api>>

\* Line 235: article_date[:10] with article_date None raises TypeError, which
\* nothing catches.
ItemWithoutDate ==
    /\ pc = "item"
    /\ \E c \in NextItems :
          /\ Usable(c) /\ ~TooOld(c) /\ ~StreakStop(c)
          /\ c.published = None
          /\ seen_articles_counter' = CounterAfter(c)
    /\ pc' = "crashed" /\ exc' = "article_date"
    /\ UNCHANGED <<convVars, crawled_data, saved_urls, failed_urls, prev_crawled,
                   new_articles, stopdate, page_param, localVars, retryVars,
                   diskVars, upVars, pos, histVars>>

\* Lines 220-223, 235-237 with get_article lines 246-249: a seen item; the
\* article is not requested, get_article returns True.
ItemSeen ==
    /\ pc = "item"
    /\ \E c \in NextItems :
          /\ Usable(c) /\ ~TooOld(c) /\ ~StreakStop(c)
          /\ c.published # None
          /\ Seen(c)
          /\ seen_articles_counter' = CounterAfter(c)
          /\ failed_urls' = remove_from_failed(failed_urls, ShortUrl(c))
          /\ streak' = StreakAfter(c, streak)
          /\ streakAny' = StreakAfter(c, streakAny)
          /\ oldUsable' = (oldUsable \/ IsOld(c))
          /\ oldAny' = (oldAny \/ IsOld(c))
    /\ pos' = NextPos
    /\ UNCHANGED <<convVars, crawled_data, saved_urls, prev_crawled, new_articles, stopdate,
                   page_param, localVars, retryVars, pc, exc, diskVars, upVars,
                   lastStop, failedWrites, crawledWrites,
                   downloads, firstRun, retryOk, api>>

\* get_article, lines 254-260 and 286-290: the request raises or answers no
\* content entry.
FetchFails(resp) == resp.status = "raise" \/ Len(resp.content) = 0

\* Lines 232-235, 238-239 with get_article lines 251-260, 286-290: the article
\* request fails; the short URL is added to the failed URLs.
ItemFetchFails ==
    /\ pc = "item"
    /\ \E c \in NextItems :
          /\ Usable(c) /\ ~TooOld(c) /\ ~StreakStop(c)
          /\ c.published # None
          /\ ~Seen(c)
          /\ \E resp \in ArticleOutcomes(ShortUrl(c)) : FetchFails(resp)
          /\ seen_articles_counter' = CounterAfter(c)
          /\ failed_urls' = add_to_failed(failed_urls, ShortUrl(c))
          /\ streak' = StreakAfter(c, streak)
          /\ streakAny' = StreakAfter(c, streakAny)
          /\ oldUsable' = (oldUsable \/ IsOld(c))
          /\ oldAny' = (oldAny \/ IsOld(c))
    /\ pos' = NextPos
    /\ UNCHANGED <<convVars, crawled_data, saved_urls, prev_crawled, new_articles, stopdate,
                   page_param, localVars, retryVars, pc, exc, diskVars, upVars,
                   lastStop, failedWrites, crawledWrites,
                   downloads, firstRun, retryOk, api>>

\* Lines 232-235 with get_article lines 251-279: the article is fetched and
\* its JSON file written.
ItemFetched ==
    /\ pc = "item"
    /\ \E c \in NextItems :
          /\ Usable(c) /\ ~TooOld(c) /\ ~StreakStop(c)
          /\ c.published # None
          /\ ~Seen(c)
          /\ \E resp \in ArticleOutcomes(ShortUrl(c)) :
                /\ ~FetchFails(resp)
                /\ call' = [short_url |-> ShortUrl(c),
                            entry |-> IndexEntry(resp.content[1], TopicName(TOPICS[t]))]
                /\ files' = WriteArticleFile(files,
                               ArticlePath(IndexEntry(resp.content[1], TopicName(TOPICS[t]))))
          /\ seen_articles_counter' = CounterAfter(c)
          /\ streak' = StreakAfter(c, streak)
          /\ streakAny' = StreakAfter(c, streakAny)
          /\ oldUsable' = (oldUsable \/ IsOld(c))
          /\ oldAny' = (oldAny \/ IsOld(c))
    /\ pc' = "written"
    /\ downloads' = TRUE
    /\ UNCHANGED <<convVars, crawled_data, saved_urls, failed_urls, prev_crawled,
                   new_articles, stopdate, page_param, force, t, pages, i,
                   request, pagecontent_ok, retryVars, exc, diskCrawled,
                   diskFailed, upVars, pos, lastStop, failedWrites,
                   crawledWrites, firstRun, retryOk, api>>

\* get_article, lines 281-284, and get_urls, lines 236-237.
ArticleIndexed ==
    /\ pc = "written"
    /\ crawled_data' = Put(crawled_data, call.short_url, call.entry)
    /\ saved_urls' = saved_urls \cup {call.short_url}
    /\ new_articles' = new_articles + 1
    /\ failed_urls' = remove_from_failed(failed_urls, call.short_url)
    /\ pos' = NextPos
    /\ pc' = "item"
    /\ UNCHANGED <<convVars, prev_crawled, seen_articles_counter, stopdate, page_param,
                   localVars, retryVars, exc, diskVars, upVars, streak, streakAny, oldUsable,
                   oldAny, lastStop, failedWrites, crawledWrites, downloads,
                   firstRun, retryOk, api>>

\* ------------------------------------------------------------ retry_failed

\* get_article(self, short_url, topic_name, article_date, force=False): the
\* number of arguments a call has to pass.
GetArticleRequiredArgs == 3

\* self.get_article(short_url, topic_name) and self.get_article(url,
\* topic_name) in retry_failed: the number of arguments they pass.
RetryCallArgs == 2

\* Python raises TypeError for a call that misses a required argument.
MissingArgument(nargs) == nargs < GetArticleRequiredArgs

\* Lines 401 and 391: the URL is the URL of a listing request.
IsListingUrl(url) == url.host = API

\* Lines 390-398: short_url.split("/"): the empty string before the first
\* "/", the path segments and, for a listing URL, the query after the last "/".
SplitSlash(url) ==
    IF url.host \in {"", API}
    THEN <<"">> \o url.path \o (IF url.page > 0 THEN <<"?q=auto">> ELSE <<>>)
    ELSE <<"https:", "", "www.svt.se">> \o url.path

\* str.startswith on one segment of a URL.
SegmentStartsWith(segment, word) ==
    Len(segment) >= Len(word) /\ SubSeq(segment, 1, Len(word)) = word

\* Lines 393-398: the topic name of a failed URL ("IndexError" when the
\* segment is missing). short_url starts with "/nyheter/lokalt" when its
\* first segment is nyheter and its second starts with lokalt, and with
\* "/nyheter" when its first segment starts with nyheter.
RetryTopicName(url) ==
    LET parts == SplitSlash(url)
        at(n) == IF n + 1 \in DOMAIN parts THEN parts[n + 1] ELSE "IndexError"
        lokalt == /\ Len(parts) >= 3 /\ parts[1] = "" /\ parts[2] = "nyheter"
                  /\ SegmentStartsWith(parts[3], "lokalt")
        nyheter == /\ Len(parts) >= 2 /\ parts[1] = ""
                   /\ SegmentStartsWith(parts[2], "nyheter")
    IN  IF lokalt THEN at(3) ELSE IF nyheter THEN at(2) ELSE at(1)

\* Lines 382-384: nothing to retry.
RetryNothing ==
    /\ pc = "idle" /\ ~fixed
    /\ failed_urls = <<>>
    /\ pc' = "done"
    /\ UNCHANGED <<convVars, progVars, localVars, retryVars, exc, diskVars, upVars, pos,
                   histVars>>

\* Lines 386-389.
RetryStart ==
    /\ pc = "idle" /\ ~fixed
    /\ failed_urls # <<>>
    /\ j' = 1 /\ success' = {} /\ new_failed' = {} /\ retry_request' = None
    /\ pc' = "retry"
    /\ UNCHANGED <<convVars, progVars, localVars, debug, exc, diskVars, upVars, pos,
                   histVars>>

\* Lines 393-398: the URL lacks the segment the topic name is taken from;
\* nothing catches the IndexError.
RetryTopicFails ==
    /\ pc = "retry" /\ j \in DOMAIN failed_urls
    /\ RetryTopicName(failed_urls[j]) = "IndexError"
    /\ pc' = "crashed" /\ exc' = "IndexError"
    /\ UNCHANGED <<convVars, progVars, localVars, retryVars, diskVars, upVars, pos, histVars>>

\* Lines 401-404, 413-417: the listing of a failed listing URL cannot be
\* fetched (requests.get raises, request keeps what it held) or cannot be
\* parsed (request is bound to the answer). With debug set, line 416 reads
\* request.url: when no listing request of this call has been answered the
\* local is unbound, and nothing catches the UnboundLocalError.
RetryListingFails ==
    /\ pc = "retry" /\ j \in DOMAIN failed_urls
    /\ IsListingUrl(failed_urls[j])
    /\ RetryTopicName(failed_urls[j]) # "IndexError"
    /\ \E answered \in BOOLEAN :
          LET bound == IF answered THEN Some(failed_urls[j]) ELSE retry_request
          IN  IF debug /\ bound = None
              THEN /\ pc' = "crashed" /\ exc' = "UnboundLocalError"
                   /\ UNCHANGED retryVars
              ELSE /\ retry_request' = bound
                   /\ new_failed' = new_failed \cup {failed_urls[j]}
                   /\ j' = j + 1
                   /\ UNCHANGED <<success, debug, pc, exc>>
    /\ UNCHANGED <<convVars, progVars, localVars, diskVars, upVars, pos, histVars>>

\* Lines 401-417: the listing is fetched. Without an item that has a URL the
\* loop ends and the listing URL counts as a success; the first item that has
\* one is passed to get_article without article_date, the TypeError is caught
\* at line 413 and the listing URL counts as failed. allAvailable says that
\* the article API would answer every item of the listing; retryOk keeps the
\* listing URLs of which this is so.
RetryListing ==
    /\ pc = "retry" /\ j \in DOMAIN failed_urls
    /\ IsListingUrl(failed_urls[j])
    /\ RetryTopicName(failed_urls[j]) # "IndexError"
    /\ \E hasItemWithUrl, allAvailable \in BOOLEAN :
          /\ IF hasItemWithUrl /\ MissingArgument(RetryCallArgs)
             THEN /\ new_failed' = new_failed \cup {failed_urls[j]}
                  /\ success' = success
             ELSE /\ success' = success \cup {failed_urls[j]}
                  /\ new_failed' = new_failed
          /\ retryOk' = IF allAvailable THEN retryOk \cup {failed_urls[j]}
                                        ELSE retryOk
    /\ retry_request' = Some(failed_urls[j])
    /\ j' = j + 1
    /\ UNCHANGED <<convVars, progVars, localVars, debug, pc, exc, diskVars, upVars, pos, streak, streakAny,
                   oldUsable, oldAny, lastStop, failedWrites, crawledWrites,
                   downloads, firstRun, api>>

\* Lines 419-421: a failed article URL is passed to get_article without
\* article_date; nothing catches the TypeError.
RetryArticle ==
    /\ pc = "retry" /\ j \in DOMAIN failed_urls
    /\ ~IsListingUrl(failed_urls[j])
    /\ RetryTopicName(failed_urls[j]) # "IndexError"
    /\ MissingArgument(RetryCallArgs)
    /\ pc' = "crashed" /\ exc' = "get_article_arguments"
    /\ UNCHANGED <<convVars, progVars, localVars, retryVars, diskVars, upVars, pos, histVars>>

\* The orders in which a loop over a Python set can visit its elements.
Orders(S) ==
    {f \in [1..Cardinality(S) -> S] : \A m, n \in 1..Cardinality(S) : m # n => f[m] # f[n]}

RECURSIVE RemoveAll(_, _)
\* Lines 427-428: remove_from_failed for every URL of a sequence.
RemoveAll(l, us) ==
    IF us = <<>> THEN l ELSE RemoveAll(remove_from_failed(l, Head(us)), Tail(us))

RECURSIVE AddAll(_, _)
\* Lines 429-430: add_to_failed for every URL of a sequence.
AddAll(l, us) ==
    IF us = <<>> THEN l ELSE AddAll(add_to_failed(l, Head(us)), Tail(us))

\* Lines 426-431: the successes leave the list, the failures are added, and
\* failed_urls.json is written.
RetryUpdateFailed ==
    /\ pc = "retry" /\ j = Len(failed_urls) + 1
    /\ \E so \in Orders(success), fo \in Orders(new_failed) :
          failed_urls' = AddAll(RemoveAll(failed_urls, so), fo)
    /\ diskFailed' = failed_urls'
    /\ failedWrites' = failedWrites + 1
    /\ pc' = "retry_save"
    /\ UNCHANGED <<convVars, crawled_data, saved_urls, prev_crawled, seen_articles_counter,
                   new_articles, stopdate, page_param, localVars, retryVars, exc,
                   diskCrawled, files, upVars, pos, streak, streakAny, oldUsable, oldAny,
                   lastStop, crawledWrites, downloads, firstRun, retryOk, api>>

\* Lines 433-434: crawled_pages.json is written.
RetryWriteCrawled ==
    /\ pc = "retry_save"
    /\ diskCrawled' = crawled_data
    /\ crawledWrites' = crawledWrites + 1
    /\ pc' = "done"
    /\ UNCHANGED <<convVars, progVars, localVars, retryVars, exc, diskFailed, files, upVars,
                   pos, streak, streakAny, oldUsable, oldAny, lastStop, failedWrites, downloads, firstRun, retryOk, api>>

\* ----------------------------------- add_to_failed / remove_from_failed
\* called on an SvtParser object that has just been constructed.

FailedURLs == ShortURLs \cup ListingURLs

\* SvtParser.add_to_failed(url), lines 292-295.
AddToFailed(url) ==
    /\ pc \in {"idle", "api"} /\ ~fixed /\ api.calls < MaxApiCalls
    /\ failed_urls' = add_to_failed(failed_urls, url)
    /\ api' = [calls |-> api.calls + 1, op |-> "add", url |-> url,
               before |-> failed_urls]
    /\ pc' = "api"
    /\ UNCHANGED <<convVars, crawled_data, saved_urls, prev_crawled, seen_articles_counter,
                   new_articles, stopdate, page_param, localVars, retryVars, exc,
                   diskVars, upVars, pos, streak, streakAny, oldUsable, oldAny, lastStop,
                   failedWrites, crawledWrites, downloads, firstRun, retryOk>>

\* SvtParser.remove_from_failed(url), lines 297-300.
RemoveFromFailed(url) ==
    /\ pc \in {"idle", "api"} /\ ~fixed /\ api.calls < MaxApiCalls
    /\ failed_urls' = remove_from_failed(failed_urls, url)
    /\ api' = [calls |-> api.calls + 1, op |-> "remove", url |-> url,
               before |-> failed_urls]
    /\ pc' = "api"
    /\ UNCHANGED <<convVars, crawled_data, saved_urls, prev_crawled, seen_articles_counter,
                   new_articles, stopdate, page_param, localVars, retryVars, exc,
                   diskVars, upVars, pos, streak, streakAny, oldUsable, oldAny, lastStop,
                   failedWrites, crawledWrites, downloads, firstRun, retryOk>>

\* ------------------------------------------------------- the next invocation

\* The process has ended; the command is run again: SvtParser.__init__ loads
\* the two files (get_crawled_data, lines 143-156).
Restart ==
    /\ pc = "done" /\ fixed /\ run < MaxRuns
    /\ run' = run + 1
    /\ firstRun' = [firstRun EXCEPT !.ended = TRUE,
                                    !.crawled_data = crawled_data,
                                    !.diskCrawled = diskCrawled]
    /\ crawled_data' = diskCrawled
    /\ saved_urls' = DOMAIN diskCrawled
    /\ failed_urls' = diskFailed
    /\ prev_crawled' = 0 /\ seen_articles_counter' = 0 /\ new_articles' = 0
    /\ stopdate' = None /\ page_param' = 1
    /\ downloads' = FALSE /\ lastStop' = "" /\ streak' = 0 /\ streakAny' = 0
    /\ oldUsable' = FALSE /\ oldAny' = FALSE
    /\ pc' = "idle"
    /\ UNCHANGED <<convVars, localVars, retryVars, exc, diskVars, fixed, upstream, pos,
                   failedWrites, crawledWrites, retryOk, api>>

\* ---------------------------------------------------------- specification

Init == (InitFree \/ InitFixed) /\ ArticleIdle /\ XmlIdle /\ IndexIdle /\ DocIdle

Next ==
    \/ \E f \in BOOLEAN, sd \in StopDates : Crawl(f, sd)
    \/ TopicRequestFails
    \/ TopicRequest
    \/ PageFirst
    \/ PageFetched
    \/ PageRequestError
    \/ PageParseError
    \/ PageEnd
    \/ ItemSkip
    \/ ItemStopDate
    \/ ItemSeenStop
    \/ ItemWithoutDate
    \/ ItemSeen
    \/ ItemFetchFails
    \/ ItemFetched
    \/ ArticleIndexed
    \/ RetryNothing
    \/ RetryStart
    \/ RetryTopicFails
    \/ RetryListingFails
    \/ RetryListing
    \/ RetryArticle
    \/ RetryUpdateFailed
    \/ RetryWriteCrawled
    \/ \E url \in FailedURLs : AddToFailed(url)
    \/ \E url \in FailedURLs : RemoveFromFailed(url)
    \/ Restart

Spec == Init /\ [][Next]_vars

\* ------------------------------------------------- one call of get_article
\* get_urls, lines 235-239, for one listing item during a crawl: the call of
\* get_article and the update of the failed URLs that follows it.

\* The years a timestamp of an article record can carry.
Years == {1999, 2003, 2004, 2022, ThisYear, ThisYear + 1}

Stamps == {None} \cup {Some(y) : y \in Years}

\* The first content entry of an article response.
ArticleRecords == [id : {1}, published : Stamps, modified : Stamps]

\* What the article API can answer.
Answers ==
    { [status |-> "raise", content |-> <<>>],
      [status |-> "ok", content |-> <<>>] }
    \cup { [status |-> "ok", content |-> <<r>>] : r \in ArticleRecords }

InitGetArticle ==
    /\ fixed = FALSE
    /\ debug = FALSE
    /\ upstream = FreeUpstream
    /\ diskCrawled \in {EmptyMap, [u \in {UA} |-> E1]}
    /\ diskFailed \in {<<>>, <<UA>>}
    /\ InitCommon
    /\ arg = [short_url |-> NoURL, topic_name |-> "", force |-> FALSE]
    /\ answer \in Answers
    /\ writeOk \in BOOLEAN /\ incomplete = {}
    /\ nrequests = 0 /\ ret = "none"
    /\ XmlIdle /\ IndexIdle /\ DocIdle

\* What this call leaves alone.
callFrame == <<prev_crawled, seen_articles_counter, stopdate, page_param,
               localVars, retryVars, exc, diskCrawled, diskFailed, upVars, pos,
               histVars, xmlVars, idxVars, docVars>>

\* A variant of the test of line 248 that forgets lines 246-247.
AlreadySaved_unstripped(short_url, f) == short_url \in saved_urls /\ ~f

\* get_article, lines 246-248: the article has been downloaded already.
AlreadySaved(short_url, f) == StripHost(short_url) \in saved_urls /\ ~f

\* A caller that takes every article off the failed URLs.
FailedAfter_removing(l, url, succeeded) == remove_from_failed(l, url)

\* get_urls, lines 236-239: the failed URLs after get_article returned.
FailedAfter(l, url, succeeded) ==
    IF succeeded THEN remove_from_failed(l, url) ELSE add_to_failed(l, url)

\* get_urls, line 235: get_article(short_url, topic_name, article_date, force).
GetArticleCall(url, topic, f) ==
    /\ pc = "idle"
    /\ arg' = [short_url |-> url, topic_name |-> TopicName(topic), force |-> f]
    /\ pc' = "get_article"
    /\ UNCHANGED <<crawled_data, saved_urls, failed_urls, new_articles, files,
                   callFrame, answer, writeOk, incomplete, nrequests, ret>>

\* get_article, lines 246-249.
GetArticleSkip ==
    /\ pc = "get_article"
    /\ AlreadySaved(arg.short_url, arg.force)
    /\ ret' = "True"
    /\ pc' = "returned"
    /\ UNCHANGED <<crawled_data, saved_urls, failed_urls, new_articles, files,
                   callFrame, arg, answer, writeOk, incomplete, nrequests>>

\* get_article, lines 251-260 and 286-290: the request raises or answers no
\* content entry.
GetArticleFails ==
    /\ pc = "get_article"
    /\ ~AlreadySaved(arg.short_url, arg.force)
    /\ FetchFails(answer)
    /\ nrequests' = nrequests + 1
    /\ ret' = "False"
    /\ pc' = "returned"
    /\ UNCHANGED <<crawled_data, saved_urls, failed_urls, new_articles, files,
                   callFrame, arg, answer, writeOk, incomplete>>

\* get_article, lines 251-279 and 286-290: write_json raises OSError inside
\* the try; the except clause of line 286 catches it. What write_json has
\* done by then is one of FailedWrite.
GetArticleWriteFails ==
    /\ pc = "get_article"
    /\ ~AlreadySaved(arg.short_url, arg.force)
    /\ ~FetchFails(answer)
    /\ ~writeOk
    /\ nrequests' = nrequests + 1
    /\ \E left \in FailedWrite(files, incomplete,
                                ArticlePath(IndexEntry(answer.content[1], arg.topic_name))) :
          files' = left.files /\ incomplete' = left.incomplete
    /\ ret' = "False"
    /\ pc' = "returned"
    /\ UNCHANGED <<crawled_data, saved_urls, failed_urls, new_articles,
                   callFrame, arg, answer, writeOk>>

\* get_article, lines 251-284.
GetArticleFetched ==
    /\ pc = "get_article"
    /\ ~AlreadySaved(arg.short_url, arg.force)
    /\ ~FetchFails(answer)
    /\ writeOk
    /\ nrequests' = nrequests + 1
    /\ LET entry == IndexEntry(answer.content[1], arg.topic_name)
       IN  /\ files' = WriteArticleFile(files, ArticlePath(entry))
           /\ incomplete' = incomplete \ {ArticlePath(entry)}
           /\ crawled_data' = Put(crawled_data, StripHost(arg.short_url), entry)
    /\ saved_urls' = saved_urls \cup {StripHost(arg.short_url)}
    /\ new_articles' = new_articles + 1
    /\ ret' = "True"
    /\ pc' = "returned"
    /\ UNCHANGED <<failed_urls, callFrame, arg, answer, writeOk>>

\* get_urls, lines 236-239; get_urls passes short URLs without the site host.
AfterGetArticle ==
    /\ pc = "returned"
    /\ arg.short_url \in ShortURLs
    /\ failed_urls' = FailedAfter(failed_urls, arg.short_url, ret = "True")
    /\ pc' = "item_done"
    /\ UNCHANGED <<crawled_data, saved_urls, new_articles, files, callFrame,
                   artVars>>

NextGetArticle ==
    \/ \E url \in ShortURLs \cup {UAabs}, n \in DOMAIN TOPICS, f \in BOOLEAN :
          GetArticleCall(url, TOPICS[n], f)
    \/ GetArticleSkip
    \/ GetArticleFails
    \/ GetArticleWriteFails
    \/ GetArticleFetched
    \/ AfterGetArticle

SpecGetArticle == InitGetArticle /\ [][NextGetArticle]_vars

\* --------------------------------------------------------- process_articles
\* Texts are taken to be ASCII: a text has as many bytes as characters.

\* The byte size above which the buffer is written, line 487.
XmlThreshold == 5000000

\* len("<articles>\n"), lines 465 and 494.
OpenLen == 11

\* len("</articles>"), line 444.
CloseLen == 11

\* Largest number of article files of a topic directory.
MaxFiles == 2

\* Number of runs of process_articles followed.
MaxXmlRuns == 2

\* The topic directories data/svt-<year>/<topic>, in sorted order.
XmlDirs == << [year |-> "2022", topic |-> "sport"],
             [year |-> "nodate", topic |-> "ekonomi"] >>

\* The byte sizes the XML of an article can have.
XmlSizes == {100, XmlThreshold - OpenLen - 1, XmlThreshold - OpenLen,
             XmlThreshold + 1000000}

\* str(p) of the k-th article file of directory d, as <<year, topic, id>>.
JsonPath(d, k) == <<XmlDirs[d].year, XmlDirs[d].topic, ToString(k)>>

\* str(contents_dir / str(filecounter)) + ".xml", as <<year, topic, n>>.
XmlName(d, n) == <<XmlDirs[d].year, XmlDirs[d].topic, n>>

\* The byte size of process_article's output for the article file at path.
XmlSizeOf(path) ==
    LET d == CHOOSE n \in DOMAIN XmlDirs :
                 XmlDirs[n].year = path[1] /\ XmlDirs[n].topic = path[2]
        k == CHOOSE n \in DOMAIN tree[d] : ToString(n) = path[3]
    IN  tree[d][k]

\* int(p.stem) of the files of contents_dir.glob("*.xml").
XmlNumbers(xmlfiles, d) ==
    {name[3] : name \in {x \in DOMAIN xmlfiles : x[1] = XmlDirs[d].year
                                                  /\ x[2] = XmlDirs[d].topic}}

SetMax(S) == CHOOSE m \in S : \A n \in S : n <= m

\* A counter that always starts at 1.
StartCounter_one(ov, numbers) == 1

\* Lines 467-470: the number of the first XML file to write.
StartCounter(ov, numbers) ==
    IF ~ov /\ numbers # {} THEN SetMax(numbers) + 1 ELSE 1

\* A converter that skips no file.
Skipped_never(ov, processed, path) == FALSE

\* Line 474: the article file has been converted before.
Skipped(ov, processed, path) == ~ov /\ path \in DOMAIN processed

\* A size test that never asks for the buffer to be written.
BufferFull_never(bytes) == FALSE

\* Line 487: the buffer is large enough to be written.
BufferFull(bytes) == bytes > XmlThreshold

\* Line 465 and 489: contents = "<articles>\n".
EmptyBuffer == [articles |-> <<>>, bytes |-> OpenLen]

\* Line 484: contents += xml + "\n".
Appended(buffer, path, size) ==
    [articles |-> Append(buffer.articles, path), bytes |-> buffer.bytes + size + 1]

\* write_contents, lines 443-447: the file written from the buffer.
XmlFile(buffer) ==
    [articles |-> buffer.articles, bytes |-> buffer.bytes + CloseLen]

\* Line 460: the directories of data/svt-<year>/*, or of data/svt-*/*.
SelectedDirs(year) ==
    SelectSeq([n \in DOMAIN tree |-> n],
              LAMBDA n : year = None \/ XmlDirs[n].year = year[1])

InitXml ==
    /\ fixed = FALSE
    /\ debug = FALSE
    /\ upstream = FreeUpstream
    /\ diskCrawled = EmptyMap
    /\ diskFailed = <<>>
    /\ InitCommon
    /\ ArticleIdle /\ IndexIdle /\ DocIdle
    /\ \E first \in UNION {[1..n -> XmlSizes] : n \in 0..MaxFiles} :
          tree = <<first, <<100>> >>
    /\ xml \in {EmptyMap, [x \in {XmlName(1, 3)} |-> [articles |-> <<>>, bytes |-> 22]]}
    /\ processed_json = EmptyMap /\ diskProcessed = EmptyMap
    /\ override = FALSE /\ dirs = <<>> /\ dno = 1 /\ fno = 1
    /\ contents = [articles |-> <<>>, bytes |-> 0]
    /\ filecounter = 1 /\ xrun = 1
    /\ xmlAtStart = EmptyMap /\ processedAtStart = EmptyMap
    /\ xmlWrites = <<>> /\ transformed = <<>>
    /\ topicBytes = 0 /\ lastBytes = 0 /\ topicWrites = 0

\* What process_articles leaves alone.
xmlFrame == <<progVars, localVars, retryVars, exc, diskVars, upVars, pos,
              histVars, artVars, idxVars, docVars>>

\* process_articles(year, override_existing), lines 449-460.
ProcessArticles(year, ov) ==
    /\ pc = "idle"
    /\ processed_json' = diskProcessed
    /\ override' = ov
    /\ dirs' = SelectedDirs(year)
    /\ dno' = 1
    /\ xmlAtStart' = xml /\ processedAtStart' = diskProcessed
    /\ xmlWrites' = <<>> /\ transformed' = <<>>
    /\ pc' = "xml_topic"
    /\ UNCHANGED <<xmlFrame, tree, xml, diskProcessed, fno, contents,
                   filecounter, xrun, topicBytes, lastBytes, topicWrites>>

\* Lines 460-470: the next topic directory.
XmlTopicStart ==
    /\ pc = "xml_topic" /\ dno \in DOMAIN dirs
    /\ contents' = EmptyBuffer
    /\ filecounter' = StartCounter(override, XmlNumbers(xml, dirs[dno]))
    /\ fno' = 1
    /\ topicBytes' = 0 /\ lastBytes' = 0 /\ topicWrites' = 0
    /\ pc' = "xml_file"
    /\ UNCHANGED <<xmlFrame, tree, xml, processed_json, diskProcessed, override,
                   dirs, dno, xrun, xmlAtStart, processedAtStart, xmlWrites,
                   transformed>>

\* Lines 471-477: an article file that has been converted is passed over.
XmlSkipFile ==
    /\ pc = "xml_file" /\ fno \in DOMAIN tree[dirs[dno]]
    /\ Skipped(override, processed_json, JsonPath(dirs[dno], fno))
    /\ fno' = fno + 1
    /\ UNCHANGED <<xmlFrame, pc, tree, xml, processed_json, diskProcessed,
                   override, dirs, dno, contents, filecounter, xrun, xmlAtStart,
                   processedAtStart, xmlWrites, transformed, topicBytes,
                   lastBytes, topicWrites>>

\* Lines 479-492: an article file is converted and appended to the buffer,
\* and the buffer is written when it is large enough.
XmlProcessFile ==
    /\ pc = "xml_file" /\ fno \in DOMAIN tree[dirs[dno]]
    /\ ~Skipped(override, processed_json, JsonPath(dirs[dno], fno))
    /\ LET path == JsonPath(dirs[dno], fno)
           size == tree[dirs[dno]][fno]
           name == XmlName(dirs[dno], filecounter)
           buffer == Appended(contents, path, size)
       IN  /\ processed_json' = Put(processed_json, path, name)
           /\ transformed' = Append(transformed, path)
           /\ topicBytes' = topicBytes + size
           /\ lastBytes' = size
           /\ IF BufferFull(buffer.bytes)
              THEN /\ xml' = Put(xml, name, XmlFile(buffer))
                   /\ xmlWrites' = Append(xmlWrites, name)
                   /\ topicWrites' = topicWrites + 1
                   /\ contents' = EmptyBuffer
                   /\ filecounter' = filecounter + 1
              ELSE /\ contents' = buffer
                   /\ UNCHANGED <<xml, xmlWrites, topicWrites, filecounter>>
    /\ fno' = fno + 1
    /\ UNCHANGED <<xmlFrame, pc, tree, diskProcessed, override, dirs, dno, xrun,
                   xmlAtStart, processedAtStart>>

\* Lines 493-498: the rest of the buffer and processed_json.json are written.
XmlTopicEnd ==
    /\ pc = "xml_file" /\ fno \notin DOMAIN tree[dirs[dno]]
    /\ IF contents.bytes > OpenLen
       THEN /\ xml' = Put(xml, XmlName(dirs[dno], filecounter), XmlFile(contents))
            /\ xmlWrites' = Append(xmlWrites, XmlName(dirs[dno], filecounter))
            /\ topicWrites' = topicWrites + 1
       ELSE UNCHANGED <<xml, xmlWrites, topicWrites>>
    /\ diskProcessed' = processed_json
    /\ dno' = dno + 1
    /\ pc' = "xml_topic"
    /\ UNCHANGED <<xmlFrame, tree, processed_json, override, dirs, fno, contents,
                   filecounter, xrun, xmlAtStart, processedAtStart, transformed,
                   topicBytes, lastBytes>>

\* Lines 500-503: the loop over the topic directories is over.
XmlDone ==
    /\ pc = "xml_topic" /\ dno \notin DOMAIN dirs
    /\ pc' = "xml_done"
    /\ UNCHANGED <<xmlFrame, xmlVars>>

\* The process has ended and its memory is gone; before the command is run
\* again, a crawl can have written one more article file to the first topic
\* directory.
XmlNextRun(newFiles) ==
    /\ pc = "xml_done" /\ xrun < MaxXmlRuns
    /\ Len(tree[1]) + Len(newFiles) <= MaxFiles
    /\ tree' = [tree EXCEPT ![1] = tree[1] \o newFiles]
    /\ xrun' = xrun + 1
    /\ processed_json' = EmptyMap
    /\ dirs' = <<>> /\ dno' = 1 /\ fno' = 1
    /\ contents' = [articles |-> <<>>, bytes |-> 0]
    /\ filecounter' = 1
    /\ pc' = "idle"
    /\ UNCHANGED <<xmlFrame, xml, diskProcessed, override, xmlAtStart,
                   processedAtStart, xmlWrites, transformed, topicBytes,
                   lastBytes, topicWrites>>

NextXml ==
    \/ \E year \in {None, Some("2022")}, ov \in BOOLEAN : ProcessArticles(year, ov)
    \/ XmlTopicStart
    \/ XmlSkipFile
    \/ XmlProcessFile
    \/ XmlTopicEnd
    \/ XmlDone
    \/ \E newFiles \in {<<>>} \cup {<<n>> : n \in XmlSizes} : XmlNextRun(newFiles)

SpecXml == InitXml /\ [][NextXml]_vars

\* -------------------------------------------------- crawled_data_from_files
\* Directory names are sequences of characters, a file name is its stem and
\* its suffix, and a path is the sequence of its parts.

\* Largest article id of the file tree.
MaxIds == 2

SvtPrefix == <<"s", "v", "t", "-">>

\* The year directories of the file tree, data/svt-2022 and data/svt-nodate.
IndexYearDirs == {SvtPrefix \o <<"2", "0", "2", "2">>,
                  SvtPrefix \o <<"n", "o", "d", "a", "t", "e">>}

\* The paths data/svt-<year>/<topic>/<id>.json that rglob can find.
IndexPaths == {<<"data", dir, "sport", <<ToString(n), ".json">> >> :
                   dir \in IndexYearDirs, n \in 1..MaxIds}

\* What json.load(f)[0].get("url") can give for an article file.
IndexUrls == {None, Some("/a"), Some("/b")}

\* The name of the year directory taken for the year.
YearOf_whole(jsonpath) == jsonpath[2]

\* Line 596: jsonpath.parts[1][4:].
YearOf(jsonpath) == SubSeq(jsonpath[2], 5, Len(jsonpath[2]))

\* Line 597: jsonpath.parts[2].
TopicOf(jsonpath) == jsonpath[3]

\* Line 598: jsonpath.stem.
StemOf(jsonpath) == jsonpath[4][1]

InitIndex ==
    /\ fixed = FALSE
    /\ debug = FALSE
    /\ upstream = FreeUpstream
    /\ diskCrawled = EmptyMap
    /\ diskFailed = <<>>
    /\ InitCommon
    /\ ArticleIdle /\ XmlIdle /\ DocIdle
    /\ \E paths \in SUBSET IndexPaths : jsonTree \in [paths -> IndexUrls]
    /\ unread = {} /\ index = EmptyMap /\ indexOut = None

\* What crawled_data_from_files leaves alone.
idxFrame == <<progVars, localVars, retryVars, exc, diskVars, upVars, pos,
              histVars, artVars, xmlVars, docVars>>

\* Lines 594-595: the index is empty and rglob has found the article files.
BuildIndex ==
    /\ pc = "idle"
    /\ index' = EmptyMap
    /\ unread' = DOMAIN jsonTree
    /\ pc' = "build_index"
    /\ UNCHANGED <<idxFrame, jsonTree, indexOut>>

\* Lines 595-603: one article file, in the order rglob yields them.
IndexFile(jsonpath) ==
    /\ pc = "build_index" /\ jsonpath \in unread
    /\ index' = Put(index, jsonTree[jsonpath],
                    <<StemOf(jsonpath), YearOf(jsonpath), TopicOf(jsonpath)>>)
    /\ unread' = unread \ {jsonpath}
    /\ UNCHANGED <<idxFrame, pc, jsonTree, indexOut>>

\* Line 605: write_json(crawled_data, DATADIR / outfile).
IndexWrite ==
    /\ pc = "build_index" /\ unread = {}
    /\ indexOut' = Some(index)
    /\ pc' = "index_done"
    /\ UNCHANGED <<idxFrame, jsonTree, unread, index>>

NextIndex ==
    \/ BuildIndex
    \/ \E jsonpath \in IndexPaths : IndexFile(jsonpath)
    \/ IndexWrite

SpecIndex == InitIndex /\ [][NextIndex]_vars

\* ---------------------------------------------------------- process_article
\* A text is the sequence of its characters; "nbsp" stands for the one
\* character U+00A0. A time stamp is written as the four digits of its year.
\* An XML element is a record of its tag, attributes, text and children, and
\* is referred to by its path, the child numbers from the root.

\* Largest number of nodes of a lead or body list.
MaxBody == 2

\* Largest number of children of a node.
MaxChildren == 2

\* Largest depth of the children below a node.
MaxNesting == 2

Host == <<"h", "t", "t", "p", "s", ":", "/", "/", "w", "w", "w", ".", "s", "v",
         "t", ".", "s", "e">>

HttpPrefix == <<"h", "t", "t", "p">>

WwwPrefix == <<"w", "w", "w">>

\* s.startswith(prefix).
StartsWith(s, prefix) ==
    Len(s) >= Len(prefix) /\ SubSeq(s, 1, Len(prefix)) = prefix

\* The characters str.strip() removes.
Whitespace == {" ", "nbsp"}

RECURSIVE LStrip(_)
LStrip(s) == IF s # <<>> /\ Head(s) \in Whitespace THEN LStrip(Tail(s)) ELSE s

RECURSIVE RStrip(_)
RStrip(s) ==
    IF s # <<>> /\ s[Len(s)] \in Whitespace
    THEN RStrip(SubSeq(s, 1, Len(s) - 1)) ELSE s

\* s.strip().
Strip(s) == RStrip(LStrip(s))

\* contents.replace("\xa0", " "), line 588.
NoNbsp(s) == [n \in DOMAIN s |-> IF s[n] = "nbsp" THEN " " ELSE s[n]]

TypeP == <<"p">>
TypeH2 == <<"h", "2">>
TypeText == <<"t", "e", "x", "t">>
TypeDiv == <<"d", "i", "v">>
TypeImage == <<"s", "v", "t", "-", "i", "m", "a", "g", "e">>
TypeVideo == <<"s", "v", "t", "-", "v", "i", "d", "e", "o">>
TypeFeed == <<"s", "v", "t", "-", "s", "c", "r", "i", "b", "b", "l", "e", "f",
             "e", "e", "d">>

Digits == {"0", "1", "2", "3", "4", "5", "6", "7", "8", "9"}

\* Line 512: the node types whose content is not text.
NoTextTypes == {TypeImage, TypeVideo, TypeFeed}

\* Line 520: re.match(r"p|h\d", json_tag).
StartsParagraph(json_tag) ==
    \/ Len(json_tag) >= 1 /\ json_tag[1] = "p"
    \/ Len(json_tag) >= 2 /\ json_tag[1] = "h" /\ json_tag[2] \in Digits

\* A node without the key "children".
Leaf(type, content) == [type |-> type, content |-> content, children |-> None]

\* A node with the key "children"; without the key "content" when content
\* is empty.
Inner(type, content, kids) ==
    [type |-> type, content |-> content, children |-> Some(kids)]

\* The lists of at most n elements of S.
ListsUpTo(S, n) == UNION {[1..m -> S] : m \in 0..n}

\* The nodes without children of the lead and body lists.
Leaves ==
    {Leaf(TypeP, <<"A">>), Leaf(TypeP, <<" ">>), Leaf(TypeH2, <<"B">>),
     Leaf(TypeText, <<"A">>), Leaf(TypeText, <<"B">>), Leaf(TypeImage, <<"A">>)}

TextKids == {Leaf(TypeText, <<"A">>), Leaf(TypeText, <<"B">>)}

\* The nodes with text children only.
Parents ==
    {Inner(type, <<>>, kids) : type \in {TypeP, TypeH2, TypeDiv},
                              kids \in ListsUpTo(TextKids, MaxChildren)}

\* The nodes whose first child has children, to the given depth.
RECURSIVE Nested(_)
Nested(depth) ==
    IF depth = 1
    THEN {Inner(type, <<>>, <<Leaf(TypeText, <<"A">>)>>) : type \in {TypeP, TypeDiv}}
    ELSE LET below == Nested(depth - 1)
         IN  below
             \cup {Inner(type, <<>>, <<kid>>) : type \in {TypeP, TypeDiv}, kid \in below}
             \cup {Inner(type, <<>>, <<kid, Leaf(TypeText, <<"B">>)>>) :
                       type \in {TypeP, TypeDiv}, kid \in below}

\* The values of the key "url".
UrlTexts ==
    {<<>>, <<" ">>, <<"/", "a">>, <<" ", "/", "a", " ">>,
     HttpPrefix \o <<":", "/", "/", "s", "/", "a">>,
     Host \o <<"/", "a">>,
     WwwPrefix \o <<".", "s", "v", "t", ".", "s", "e", "/", "a">>,
     WwwPrefix \o <<"x">>}

\* The article records: any url and time stamps without lead and body, any
\* body without lead, a lead before a body of one paragraph, and a body of
\* one node with nested children.
DocRecords ==
    [url : UrlTexts, published : Stamps, modified : Stamps,
     structuredLead : {<<>>}, structuredBody : {<<>>}]
    \cup [url : {<<"/", "a">>}, published : {Some(2022)}, modified : {None},
          structuredLead : {<<>>},
          structuredBody : ListsUpTo(Leaves \cup Parents, MaxBody)
                           \cup {<<node>> : node \in Nested(MaxNesting)}]
    \cup [url : {<<"/", "a">>}, published : {Some(2022)}, modified : {None},
          structuredLead : ListsUpTo(Leaves \cup Parents, 1),
          structuredBody : {<<>>, <<Inner(TypeP, <<>>, <<Leaf(TypeText, <<"B">>)>>)>>}]

\* The element at the path.
RECURSIVE ElemAt(_, _)
ElemAt(elem, path) ==
    IF path = <<>> THEN elem ELSE ElemAt(elem.children[Head(path)], Tail(path))

\* The tree with the element at the path replaced.
RECURSIVE Replaced(_, _, _)
Replaced(elem, path, new) ==
    IF path = <<>> THEN new
    ELSE [elem EXCEPT !.children[Head(path)] = Replaced(@, Tail(path), new)]

\* xml_elem.set(name, value) for the element at the path.
WithAttr(root, path, name, value) ==
    LET elem == ElemAt(root, path)
    IN  Replaced(root, path, [elem EXCEPT !.attrs = Put(@, name, value)])

\* etree.SubElement(parent, tag): a new last child of the element at the path.
SubElement(root, parent, tag) ==
    LET elem == ElemAt(root, parent)
    IN  Replaced(root, parent, [elem EXCEPT !.children = Append(@, Element(tag))])

\* A test that starts a paragraph below any element.
NewParagraph_anywhere(json_tag, tag) == StartsParagraph(json_tag)

\* Line 520: the node starts a paragraph, which its parent is not.
NewParagraph(json_tag, tag) == StartsParagraph(json_tag) /\ tag # "p"

\* Lines 512-517: the content of the node is added to the text of parent.
WithContent(root, elem, parent) ==
    LET p == ElemAt(root, parent)
    IN  IF elem.type \in NoTextTypes THEN root
        ELSE IF p.text # None
             THEN Replaced(root, parent,
                      [p EXCEPT !.text = Some(p.text[1] \o <<" ">> \o elem.content)])
             ELSE IF Strip(elem.content) # <<>>
                  THEN Replaced(root, parent, [p EXCEPT !.text = Some(elem.content)])
                  ELSE root

\* parse_element(elem, parent), lines 508-525: the tree afterwards and the
\* path of the element returned. The loop over the children returns in its
\* first round.
RECURSIVE parse_element(_, _, _)
parse_element(root, elem, parent) ==
    LET withText == WithContent(root, elem, parent)
    IN  IF elem.children = None THEN [root |-> withText, ret |-> parent]
        ELSE LET starts == NewParagraph(elem.type, ElemAt(withText, parent).tag)
                 withP == IF starts THEN SubElement(withText, parent, "p")
                          ELSE withText
                 xml_elem == IF starts
                             THEN Append(parent, Len(ElemAt(withP, parent).children))
                             ELSE parent
                 kids == elem.children[1]
             IN  IF kids = <<>> THEN [root |-> withP, ret |-> parent]
                 ELSE parse_element(withP, kids[1], xml_elem)

\* A date that falls back to modified when published is out of range.
DateAttribute_fallback(rec) ==
    IF rec.published # None /\ rec.published[1] >= 2004 /\ rec.published[1] <= ThisYear
    THEN Some(<<ToString(rec.published[1])>>)
    ELSE IF rec.modified # None /\ rec.modified[1] >= 2004 /\ rec.modified[1] <= ThisYear
         THEN Some(<<ToString(rec.modified[1])>>)
         ELSE None

\* Lines 536-543: the value of the attribute date, if it is set.
DateAttribute(rec) ==
    IF rec.published # None
    THEN IF rec.published[1] >= 2004 /\ rec.published[1] <= ThisYear
         THEN Some(<<ToString(rec.published[1])>>) ELSE None
    ELSE IF rec.modified # None
         THEN IF rec.modified[1] >= 2004 /\ rec.modified[1] <= ThisYear
              THEN Some(<<ToString(rec.modified[1])>>) ELSE None
         ELSE None

\* Lines 550-553: the value of the attribute url, if it is set.
UrlAttribute(rec) ==
    LET url == Strip(rec.url)
    IN  IF (url # <<>> /\ ~StartsWith(url, HttpPrefix)) \/ StartsWith(url, WwwPrefix)
        THEN Some(Host \o url)
        ELSE IF url # <<>> THEN Some(url) ELSE None

\* Lines 532-564: the root with its attributes and the title paragraph.
ArticleRoot(rec) ==
    LET date == DateAttribute(rec)
        url == UrlAttribute(rec)
        attrs == [name \in {"id", "title"}
                            \cup (IF date # None THEN {"date"} ELSE {})
                            \cup (IF url # None THEN {"url"} ELSE {}) |->
                     CASE name = "id" -> <<"1">>
                       [] name = "title" -> <<"T">>
                       [] name = "date" -> date[1]
                       [] name = "url" -> url[1]]
        title == [tag |-> "p", attrs |-> [name \in {"type"} |-> <<"t", "i", "t", "l", "e">>],
                  text |-> Some(<<"T">>), children |-> <<>>]
    IN  [tag |-> "text", attrs |-> attrs, text |-> None, children |-> <<title>>]

\* Line 583: the element has no node below it.
NoNode(elem) == elem.text = None /\ elem.children = <<>>

\* Lines 583-584: the elements below elem that had no node are removed.
RECURSIVE Pruned(_)
Pruned(elem) ==
    LET kept == SelectSeq(elem.children, LAMBDA child : ~NoNode(child))
    IN  [elem EXCEPT !.children = [n \in DOMAIN kept |-> Pruned(kept[n])]]

\* Lines 586-588: in the text written, U+00A0 is a space.
RECURSIVE Normalised(_)
Normalised(elem) ==
    [tag |-> elem.tag,
     attrs |-> [name \in DOMAIN elem.attrs |-> NoNbsp(elem.attrs[name])],
     text |-> IF elem.text = None THEN None ELSE Some(NoNbsp(elem.text[1])),
     children |-> [n \in DOMAIN elem.children |-> Normalised(elem.children[n])]]

InitDoc ==
    /\ fixed = FALSE
    /\ debug = FALSE
    /\ upstream = FreeUpstream
    /\ diskCrawled = EmptyMap
    /\ diskFailed = <<>>
    /\ InitCommon
    /\ ArticleIdle /\ XmlIdle /\ IndexIdle
    /\ article_json \in DocRecords
    /\ article = Element("text")
    /\ nodeNo = 1 /\ output = None

\* What process_article leaves alone.
docFrame == <<progVars, localVars, retryVars, exc, diskVars, upVars, pos,
              histVars, artVars, xmlVars, idxVars>>

\* The loop to go to when the lead loop is over or skipped.
AfterLead == IF article_json.structuredBody # <<>> THEN "body" ELSE "prune"

\* Lines 532-565: process_article up to the loop over the lead.
ProcessArticle ==
    /\ pc = "idle"
    /\ article' = ArticleRoot(article_json)
    /\ nodeNo' = 1
    /\ pc' = IF article_json.structuredLead # <<>> THEN "lead" ELSE AfterLead
    /\ UNCHANGED <<docFrame, article_json, output>>

\* Lines 566-568: one round of the loop over the lead.
LeadElement ==
    /\ pc = "lead"
    /\ LET parsed == parse_element(article, article_json.structuredLead[nodeNo], <<>>)
       IN  article' = WithAttr(parsed.root, parsed.ret, "type", <<"l", "e", "a", "d">>)
    /\ IF nodeNo < Len(article_json.structuredLead)
       THEN nodeNo' = nodeNo + 1 /\ pc' = "lead"
       ELSE nodeNo' = 1 /\ pc' = AfterLead
    /\ UNCHANGED <<docFrame, article_json, output>>

\* Lines 572-574: one round of the loop over the body.
BodyElement ==
    /\ pc = "body"
    /\ article' = parse_element(article, article_json.structuredBody[nodeNo], <<>>).root
    /\ IF nodeNo < Len(article_json.structuredBody)
       THEN nodeNo' = nodeNo + 1 /\ pc' = "body"
       ELSE nodeNo' = 1 /\ pc' = "prune"
    /\ UNCHANGED <<docFrame, article_json, output>>

\* Lines 583-589: the empty elements are removed and the tree is written.
FinishArticle ==
    /\ pc = "prune"
    /\ article' = Pruned(article)
    /\ output' = Some(Normalised(Pruned(article)))
    /\ pc' = "article_done"
    /\ UNCHANGED <<docFrame, article_json, nodeNo>>

NextDoc ==
    \/ ProcessArticle
    \/ LeadElement
    \/ BodyElement
    \/ FinishArticle

SpecDoc == InitDoc /\ [][NextDoc]_vars

\* ---------------------------------------------------------------- properties

C2_Idempotent ==
    (fixed /\ run >= 2 /\ ~force) =>
        /\ ~downloads /\ new_articles = 0
        /\ crawled_data = firstRun.crawled_data
        /\ diskCrawled = firstRun.diskCrawled

\* The second crawl has ended, and the first one had downloaded an article.
C2_Reached ==
    /\ fixed /\ run = 2 /\ pc = "done" /\ ~force /\ lastStop # ""
    /\ UB \in DOMAIN firstRun.crawled_data

\* C3, as amended: with a stop date set, the first item of a topic that has a
\* non-empty URL and a publication date strictly earlier than the stop date
\* ends the topic: while the topic is being crawled no such item has been
\* met, and when it is met save_results has run (failed_urls.json holds the
\* non-empty list, crawled_pages.json the index without force), no page is
\* requested and no item is fetched for the topic any more.
C3_StopDate ==
    /\ pc \in {"page", "item", "written"} => ~oldUsable
    /\ lastStop = "stopdate" =>
          /\ oldUsable /\ stopdate # None
          /\ pc \notin {"page", "item", "written"}
          /\ failed_urls # <<>> => diskFailed = failed_urls
          /\ ~force => diskCrawled = crawled_data

\* A topic was ended by the stop date after an article of it was downloaded;
\* the crawl is at the next topic.
C3_Reached ==
    lastStop = "stopdate" /\ oldUsable /\ downloads /\ pc = "topic" /\ t = 2

\* C3, as stated: the same of the first item, with or without a URL, whose
\* publication date is strictly earlier than the stop date.
C3_AnyItem ==
    /\ pc \in {"page", "item", "written"} => ~oldAny
    /\ lastStop = "stopdate" =>
          /\ oldAny /\ stopdate # None
          /\ pc \notin {"page", "item", "written"}

\* C4, as amended: the seen counter ends a topic exactly when the streak of
\* consecutive already-indexed items, taken over the items that have a
\* non-empty URL, reaches MAX_SEEN_ARTICLES with force false and no stop
\* date: a topic so ended has a streak of MAX_SEEN_ARTICLES and is not
\* crawled further, a topic still being crawled has a shorter streak, which
\* is the counter of the code and is 0 when the topic starts; with force or
\* a stop date the rule ends no topic.
C4_SeenStreak ==
    /\ lastStop = "streak" =>
          /\ ~force /\ stopdate = None
          /\ streak = MAX_SEEN_ARTICLES
          /\ pc \notin {"page", "item", "written"}
    /\ (pc \in {"page", "item", "written"} /\ ~force) =>
          /\ seen_articles_counter = streak
          /\ stopdate = None => streak < MAX_SEEN_ARTICLES
    /\ pc = "page" /\ i = 1 => streak = 0

\* The first topic was ended by the seen counter after an item without a URL
\* had been passed over inside the run of already-indexed items; the crawl
\* is at the next topic.
C4_Reached ==
    /\ lastStop = "streak" /\ pc = "topic" /\ t = 2
    /\ streak = MAX_SEEN_ARTICLES /\ streakAny < streak

\* C4, as stated: the same of the streak that every not-yet-indexed item,
\* with or without a URL, resets to 0.
C4_AnyItem ==
    /\ lastStop = "streak" =>
          /\ ~force /\ stopdate = None
          /\ streakAny = MAX_SEEN_ARTICLES
          /\ pc \notin {"page", "item", "written"}
    /\ (pc \in {"page", "item", "written"} /\ ~force) =>
          /\ seen_articles_counter = streakAny
          /\ stopdate = None => streakAny < MAX_SEEN_ARTICLES
    /\ pc = "page" /\ i = 1 => streakAny = 0

\* C5: when fetching or parsing listing page i fails, the URL of page i is
\* in the failed URLs while the (empty) page is gone through.
C5_FailedPageUrl ==
    (pc = "item" /\ ~pagecontent_ok) =>
        ListingURL(TOPICS[t], i) \in Range(failed_urls)

\* C6: no failing request ends the crawl, the first listing request of a
\* topic included.
C6_NoAbort ==
    ~(pc = "crashed" /\ exc = "first_listing_request")

\* C7: after a topic's pages are finished or the topic is stopped early,
\* failed_urls.json and crawled_pages.json equal the failed URLs and the
\* index in memory.
C7_BothPersisted ==
    lastStop \in {"end", "stopdate", "streak"} =>
        /\ diskFailed = failed_urls
        /\ diskCrawled = crawled_data

\* C8: a retry pass goes through every failed URL, article URLs included,
\* and then writes each of the two files once.
C8_RetryArticles ==
    /\ exc # "get_article_arguments"
    /\ pc = "retry" => failedWrites = 0 /\ crawledWrites = 0
    /\ failedWrites <= 1 /\ crawledWrites <= 1

\* C9: after a retry pass, a listing URL whose listing was fetched and parsed
\* and whose articles the article API all answers is not in the failed URLs.
C9_RetryListing ==
    pc = "done" => \A u \in retryOk : u \notin Range(failed_urls)

\* C10: the failed URLs, in memory and in failed_urls.json, hold no URL
\* twice; add_to_failed of a URL in the list and remove_from_failed of a URL
\* not in it leave the list as it was, and after remove_from_failed(u) the
\* URL u is not in the list.
C10_SetLike ==
    /\ NoDup(failed_urls) /\ NoDup(diskFailed)
    /\ pc = "api" =>
          /\ (api.op = "add" /\ api.url \in Range(api.before)) =>
                failed_urls = api.before
          /\ (api.op = "add" /\ api.url \notin Range(api.before)) =>
                failed_urls = Append(api.before, api.url)
          /\ (api.op = "remove" /\ api.url \notin Range(api.before)) =>
                failed_urls = api.before
          /\ api.op = "remove" => api.url \notin Range(failed_urls)

\* add_to_failed was called with a URL of a list of two URLs.
C10_Reached ==
    /\ pc = "api" /\ api.op = "add" /\ Len(api.before) = 2
    /\ api.url \in Range(api.before)

\* C11: the storage year of a fetched article is the year of published, or
\* of modified when published is absent; the file is written under that year
\* and the index holds it exactly when 2004 <= year <= the current year, and
\* under "nodate" in every other case, also when there is no timestamp.
C11_YearBucket ==
    (pc \in {"returned", "item_done"} /\ ret = "True" /\ nrequests = 1) =>
        LET rec == answer.content[1]
            year == IF rec.published # None THEN rec.published[1]
                    ELSE IF rec.modified # None THEN rec.modified[1]
                    ELSE 0
            bucket == IF 2004 <= year /\ year <= ThisYear
                      THEN ToString(year) ELSE "nodate"
            url == StripHost(arg.short_url)
        IN  /\ url \in DOMAIN crawled_data
            /\ crawled_data[url] = <<ToString(rec.id), bucket, arg.topic_name>>
            /\ <<bucket, arg.topic_name, ToString(rec.id)>> \in files
            /\ (rec.published = None /\ rec.modified = None) => bucket = "nodate"

\* An article whose published is absent and whose modified year is 2004 was
\* fetched and indexed under "2004".
C11_Reached ==
    /\ pc = "returned" /\ ret = "True" /\ nrequests = 1
    /\ answer.content[1].published = None
    /\ answer.content[1].modified = Some(2004)
    /\ crawled_data[StripHost(arg.short_url)][2] = "2004"

\* C12: for a short URL that is indexed and force false, get_article returns
\* success without a request and leaves the index, the saved URLs, the
\* new-article counter and the article files as they were.
C12_SkipFrame ==
    (/\ pc \in {"returned", "item_done"}
     /\ StripHost(arg.short_url) \in DOMAIN diskCrawled /\ ~arg.force) =>
        /\ ret = "True" /\ nrequests = 0
        /\ crawled_data = diskCrawled /\ saved_urls = DOMAIN diskCrawled
        /\ new_articles = 0
        /\ files = {ArticlePath(diskCrawled[u]) : u \in DOMAIN diskCrawled}

\* get_article was called with the absolute URL of an indexed article,
\* without force, and has returned.
C12_Reached ==
    /\ pc = "returned" /\ arg.short_url = UAabs /\ ~arg.force
    /\ UA \in DOMAIN diskCrawled /\ ret = "True"

\* C13: when the article request raises or answers no content entry,
\* get_article returns False; whenever it returns False the index, the
\* saved URLs and the new-article counter are as before; and after get_urls
\* has dealt with the item, its short URL is among the failed URLs exactly
\* when get_article returned False.
C13_FetchFailure ==
    /\ (pc \in {"returned", "item_done"} /\ nrequests = 1 /\ FetchFails(answer)) =>
          ret = "False"
    /\ (pc \in {"returned", "item_done"} /\ ret = "False") =>
          /\ crawled_data = diskCrawled /\ saved_urls = DOMAIN diskCrawled
          /\ new_articles = 0
    /\ pc = "item_done" =>
          (arg.short_url \in Range(failed_urls) <=> ret = "False")

\* The item of a URL that was among the failed URLs was fetched, and get_urls
\* has taken it off them.
C13_Reached ==
    /\ pc = "item_done" /\ ret = "True" /\ nrequests = 1
    /\ arg.short_url \in Range(diskFailed)
    /\ arg.short_url \notin Range(failed_urls)

\* C14: when the write of the article file fails, the exception ends the
\* process: get_article does not return, and the URL is not put among the
\* failed URLs as after a failed fetch.
C14_WriteErrorPropagates ==
    (nrequests = 1 /\ ~FetchFails(answer) /\ ~writeOk) =>
        /\ pc = "crashed" /\ ret = "none"
        /\ failed_urls = diskFailed


\* The positions of a run of process_articles.
XmlRunning == {"xml_topic", "xml_file", "xml_done"}

\* The article files of the topic directories the run visits.
VisitedJson == {JsonPath(d, k) : d \in Range(dirs), k \in 1..MaxFiles + MaxXmlRuns}
               \cap UNION {{JsonPath(d, k) : k \in DOMAIN tree[d]} : d \in Range(dirs)}

\* C15: without override an article file whose path is in the processed
\* index at the start of the run is not converted in the run, is in no
\* buffer and in no XML file the run writes, and keeps its entry; a run that
\* finds every article file in the index writes no XML file. With override
\* a finished run has converted every article file of the directories it
\* visited.
C15_SkipProcessed ==
    pc \in XmlRunning =>
        /\ ~override =>
              /\ \A p \in DOMAIN processedAtStart :
                    /\ p \notin Range(transformed)
                    /\ p \notin Range(contents.articles)
                    /\ \A w \in DOMAIN xmlWrites :
                          p \notin Range(xml[xmlWrites[w]].articles)
                    /\ p \in DOMAIN processed_json
                    /\ processed_json[p] = processedAtStart[p]
              /\ (VisitedJson \subseteq DOMAIN processedAtStart) => xmlWrites = <<>>
        /\ (override /\ pc = "xml_done") =>
              /\ Range(transformed) = VisitedJson
              /\ NoDup(transformed)

\* A second run without override over a tree that was converted before has
\* ended and has written nothing.
C15_Reached ==
    /\ pc = "xml_done" /\ xrun = 2 /\ ~override
    /\ dirs = <<1, 2>> /\ Len(tree[1]) = MaxFiles
    /\ VisitedJson \subseteq DOMAIN processedAtStart
    /\ xmlWrites = <<>> /\ transformed = <<>>

\* C16 as stated: when the sizes of the articles accepted in a topic
\* directory add up to more than 5,000,000 bytes, more than one XML file
\* is written for the topic.
C16_SplitWheneverExceeded ==
    (pc = "xml_topic" /\ dno > 1) =>
        (topicBytes > XmlThreshold => topicWrites >= 2)

\* C16: when the sizes of the articles accepted in a topic directory,
\* the last one left out, add up to more than 5,000,000 bytes, more than
\* one XML file is written for the topic; and the buffer of every file
\* written was at most 5,000,000 bytes before its last article was appended.
C16_BatchSplit ==
    /\ (pc = "xml_topic" /\ dno > 1) =>
          (topicBytes - lastBytes > XmlThreshold => topicWrites >= 2)
    /\ pc \in XmlRunning =>
          \A w \in DOMAIN xmlWrites :
              LET file == xml[xmlWrites[w]]
                  last == file.articles[Len(file.articles)]
              IN  /\ file.articles # <<>>
                  /\ file.bytes - CloseLen - (XmlSizeOf(last) + 1) <= XmlThreshold

\* A topic directory whose first article exceeds the threshold alone and is
\* followed by another one has been written as two files.
C16_Reached ==
    /\ pc = "xml_topic" /\ dno > 1
    /\ topicBytes - lastBytes > XmlThreshold
    /\ topicWrites = 2

\* The number of XML files the run has written to the directory of topic d.
WrittenTo(d) ==
    Cardinality({w \in DOMAIN xmlWrites : xmlWrites[w][1] = XmlDirs[d].year
                                          /\ xmlWrites[w][2] = XmlDirs[d].topic})

\* C17: without override the run writes no XML file that existed before it;
\* no run writes an XML file twice; within a topic directory the counter is
\* its start value (highest number among the XML files that existed, plus
\* one, without override; 1 with override or without XML files) plus the
\* number of files written; and when a topic directory is finished, the
\* index entry of every article converted names a file written in the run
\* that holds the article.
C17_FileCounter ==
    pc \in XmlRunning =>
        /\ ~override =>
              \A w \in DOMAIN xmlWrites : xmlWrites[w] \notin DOMAIN xmlAtStart
        /\ NoDup(xmlWrites)
        /\ pc = "xml_file" =>
              LET before == XmlNumbers(xmlAtStart, dirs[dno])
                  start == IF ~override /\ before # {}
                           THEN SetMax(before) + 1 ELSE 1
              IN  filecounter = start + WrittenTo(dirs[dno])
        /\ pc \in {"xml_topic", "xml_done"} =>
              \A w \in DOMAIN transformed :
                  LET p == transformed[w]
                  IN  /\ p \in DOMAIN processed_json
                      /\ processed_json[p] \in Range(xmlWrites)
                      /\ p \in Range(xml[processed_json[p]].articles)

\* A run without override that found 3.xml in the first topic directory
\* has written 4.xml and 5.xml there.
C17_Reached ==
    /\ pc = "xml_done" /\ ~override
    /\ XmlName(1, 3) \in DOMAIN xmlAtStart
    /\ XmlName(1, 4) \in Range(xmlWrites)
    /\ XmlName(1, 5) \in Range(xmlWrites)
    /\ processed_json[JsonPath(1, 2)] = XmlName(1, 5)


\* The entry is made of the segments of the path: its id is the stem of the
\* file name, "svt-" and its year make the directory name, its topic is the
\* topic directory.
MatchesPath(entry, jsonpath) ==
    /\ entry[1] = jsonpath[4][1]
    /\ SvtPrefix \o entry[2] = jsonpath[2]
    /\ entry[3] = jsonpath[3]

\* C18 as stated: in the index written, every article file of the tree has
\* an entry that matches the segments of its path.
C18_EveryFileHasEntry ==
    pc = "index_done" =>
        \A jsonpath \in DOMAIN jsonTree :
            \E key \in DOMAIN indexOut[1] :
                MatchesPath(indexOut[1][key], jsonpath)

\* C18: the index written has one entry for each url found in the article
\* files, and the entry matches the path segments of an article file with
\* that url; an article file that shares its url with no other file has its
\* matching entry.
C18_RoundTrip ==
    pc = "index_done" =>
        LET out == indexOut[1]
        IN  /\ DOMAIN out = {jsonTree[jsonpath] : jsonpath \in DOMAIN jsonTree}
            /\ \A key \in DOMAIN out :
                  \E jsonpath \in DOMAIN jsonTree :
                      jsonTree[jsonpath] = key /\ MatchesPath(out[key], jsonpath)
            /\ \A jsonpath \in DOMAIN jsonTree :
                  (\A other \in DOMAIN jsonTree \ {jsonpath} :
                       jsonTree[other] # jsonTree[jsonpath])
                  => MatchesPath(out[jsonTree[jsonpath]], jsonpath)

\* The index of a tree of three article files with three urls has been
\* written, with an entry for each file.
C18_Reached ==
    /\ pc = "index_done"
    /\ Cardinality(DOMAIN jsonTree) = 3
    /\ Cardinality(DOMAIN indexOut[1]) = 3
    /\ \A jsonpath \in DOMAIN jsonTree :
          MatchesPath(indexOut[1][jsonTree[jsonpath]], jsonpath)


\* C19: the attribute url is the site host followed by the url when the url
\* is not empty, does not start with "http" and does not start with "www";
\* a url that starts with "http" or with "www" is the attribute as it is.
C19_UrlAttribute ==
    pc = "article_done" =>
        LET url == Strip(article_json.url)
            attrs == output[1].attrs
        IN  /\ (url # <<>> /\ ~StartsWith(url, HttpPrefix) /\ ~StartsWith(url, WwwPrefix))
                => ("url" \in DOMAIN attrs /\ attrs["url"] = Host \o url)
            /\ (StartsWith(url, HttpPrefix) \/ StartsWith(url, WwwPrefix))
                => ("url" \in DOMAIN attrs /\ attrs["url"] = url)

\* The texts of the paragraphs below the root that are neither the title
\* nor of the lead.
BodyParagraphs(root) ==
    LET ps == SelectSeq(root.children,
                  LAMBDA child : child.tag = "p" /\ "type" \notin DOMAIN child.attrs)
    IN  [n \in DOMAIN ps |-> ps[n].text]

\* C20: for an article without lead whose body nodes are all of type p or
\* h<digit>, without children and with a content that is not blank (such
\* as p "A" followed by h2 "B"), the root has one paragraph for each body
\* node, in order, whose text is the content of the node.
C20_OwnParagraph ==
    (/\ pc = "article_done"
     /\ article_json.structuredLead = <<>>
     /\ \A n \in DOMAIN article_json.structuredBody :
           LET node == article_json.structuredBody[n]
           IN  /\ StartsParagraph(node.type) /\ node.children = None
               /\ Strip(node.content) # <<>>)
    => BodyParagraphs(output[1]) =
           [n \in DOMAIN article_json.structuredBody |->
               Some(article_json.structuredBody[n].content)]


\* The texts joined with one space between them.
RECURSIVE Joined(_)
Joined(texts) ==
    IF Len(texts) = 1 THEN texts[1]
    ELSE texts[1] \o <<" ">> \o Joined(Tail(texts))

\* The contents of the text nodes at the head of an input list that fall
\* under the container of the list, in order: the content of a text node,
\* and the contents of the text children of a div node.
RECURSIVE Fragments(_)
Fragments(nodes) ==
    IF nodes = <<>> THEN <<>>
    ELSE LET node == Head(nodes)
         IN  (IF node.children = None THEN <<node.content>>
              ELSE [n \in DOMAIN node.children[1] |-> node.children[1][n].content])
             \o Fragments(Tail(nodes))

\* C21: for an article without lead whose body nodes are text nodes or div
\* nodes with text children (no paragraph is started, so every fragment
\* falls under the article root), the text of the root is the fragments in
\* order, joined with a single space: none is dropped or overwritten.
C21_InlineConcatenated ==
    (/\ pc = "article_done"
     /\ article_json.structuredLead = <<>>
     /\ article_json.structuredBody # <<>>
     /\ \A n \in DOMAIN article_json.structuredBody :
           LET node == article_json.structuredBody[n]
           IN  \/ node.type = TypeText /\ node.children = None
               \/ node.type = TypeDiv /\ node.children # None
                  /\ node.children[1] # <<>>
                  /\ \A k \in DOMAIN node.children[1] :
                        node.children[1][k] \in TextKids)
    => output[1].text = Some(Joined(Fragments(article_json.structuredBody)))


\* In the tree every element below the root is a paragraph that is a child
\* of the root and has no element below it.
Flat(root) ==
    /\ root.tag = "text"
    /\ \A n \in DOMAIN root.children :
          root.children[n].tag = "p" /\ root.children[n].children = <<>>

\* C22: the tree process_article builds, at every step and as returned,
\* has no paragraph inside a paragraph: every paragraph is a child of the
\* article root, whatever the nesting of p and h<digit> nodes in the lead
\* and the body.
C22_NoNestedParagraph ==
    /\ Flat(article)
    /\ output # None => Flat(output[1])

\* A body of one p node inside a p node with a text has been transformed:
\* the root has the title and one paragraph with that text.
C22_Reached ==
    /\ pc = "article_done"
    /\ article_json.structuredBody =
           <<Inner(TypeP, <<>>, <<Inner(TypeP, <<>>, <<Leaf(TypeText, <<"A">>)>>)>>)>>
    /\ Len(output[1].children) = 2
    /\ output[1].children[2].text = Some(<<"A">>)


\* The positions inside crawl.
Crawling == {"topic", "page", "item", "written"}

\* No URL is a key of the index and an entry of the failed URLs.
NeverBoth == DOMAIN crawled_data \cap Range(failed_urls) = {}

\* C23: with force false, a step of a crawl that starts with no URL both
\* in the index and in the failed URLs ends with none in both; so a crawl
\* that begins in such a state is in such a state at every save_results.
C23_IndexedNotFailed ==
    [][(pc \in Crawling /\ ~force /\ NeverBoth) => NeverBoth']_vars

\* During a crawl with force false, a URL that was in the failed URLs when
\* the crawl began (failed_urls.json still holds it) has been fetched: it is
\* indexed and no longer in the failed URLs.
C23_Reached ==
    /\ pc \in Crawling /\ ~force /\ run = 1
    /\ \E u \in ShortURLs :
          /\ u \in DOMAIN crawled_data /\ u \notin DOMAIN diskCrawled
          /\ u \in Range(diskFailed) /\ u \notin Range(failed_urls)
    /\ NeverBoth

\* The bucket get_article files the record under (lines 267-278).
BucketOf(rec) == YearBucket(ArticleYear(rec))

\* C24: the element process_article returns for a record has the attribute
\* date exactly when get_article files the same record under a year and not
\* under nodate, and the date is then of the year of that bucket.
C24_DateAgreesWithBucket ==
    (pc = "article_done") =>
        /\ ("date" \in DOMAIN output[1].attrs) <=> (BucketOf(article_json) # "nodate")
        /\ ("date" \in DOMAIN output[1].attrs) =>
              output[1].attrs["date"] = <<BucketOf(article_json)>>

\* A record without published whose modified is of the first year in range
\* has been transformed: the date is set, and the record is filed under 2004.
C24_Reached ==
    /\ pc = "article_done"
    /\ article_json.published = None /\ article_json.modified = Some(2004)
    /\ "date" \in DOMAIN output[1].attrs
    /\ BucketOf(article_json) = "2004"

====
